---------------------------- MODULE Spec2Model ----------------------------
(***************************************************************************)
(* kb-create: installation / update orchestration engine.                  *)
(*                                                                         *)
(* The model follows internal/installer (Install, Diff, Update and their   *)
(* helpers), internal/config (the snapshot file kb.config.json) and        *)
(* internal/manifest (the manifest types).  One orchestration call runs at *)
(* a time; its position is pc, and the events it has produced so far are   *)
(* kept in trace.                                                          *)
(***************************************************************************)
EXTENDS Integers, Sequences, FiniteSets, TLC

VARIABLES
    files,    \* location -> content of <location>/.kb/kb.config.json
    kbDirs,   \* locations whose .kb directory exists
    clock,    \* time.Now(): number of timestamps handed out so far
    pc,       \* position of the running orchestration call
    op,       \* the running (or just finished) call and its arguments
    trace,    \* events of the running call, in order
    pre,      \* files as they were when the running call started
    result,   \* what the call returned
    diff,     \* the UpdateDiff the call computed
    installs, \* locations for which an Install has returned a Result
    fn,       \* pure-function harness: the function applied, its input and output
    run,      \* one runGroup call: the engine, the drain goroutine and the backend's pipes
    prev,     \* history: the Update that last ended with its install done and its update failed
    cli       \* the running command (create with its wizard, or update) and its position

vars == <<files, kbDirs, clock, pc, op, trace, pre, result, diff, installs, fn, run, prev, cli>>

-----------------------------------------------------------------------------
(* Bounds *)

\* timestamps time.Now() can hand out, i.e. NewConfig calls in one behaviour
MaxClock == 2
\* length of the id list of an arbitrary Selection
MaxIds == 2
\* length of an arbitrary component list
MaxComps == 2
\* length of each list of an arbitrary UpdateDiff value
MaxDiffLen == 1
\* number of lines the external process writes on each output stream
MaxLines == 2
\* capacity of the progress channel: 64 in runGroup, scaled down so that the
\* lines of one run can exceed it
ChanCap == 2
\* how often the user toggles one item of the wizard
MaxToggles == 2

-----------------------------------------------------------------------------
(* internal/manifest/types.go *)

Package(name) == [Name |-> name]

Component(id, pkg, dflt) ==
    [ID |-> id, Pkg |-> pkg, Description |-> "", Default |-> dflt]

Manifest(version, core, services, plugins) ==
    [Version |-> version, RegistryURL |-> "", Core |-> core,
     Services |-> services, Plugins |-> plugins]

\* names[i] = p.Name for every core package, in order
CorePackageNames(m) == [i \in 1..Len(m.Core) |-> m.Core[i].Name]


-----------------------------------------------------------------------------
(* Inputs *)

\* package references the manifests use
Pkgs == {"A", "B", "C"}

\* directory arguments: an absolute path and one relative to the working
\* directory /w of the process
Paths == {"/opt/kb", "kb"}
\* the directories those paths denote
Locations == {"/opt/kb", "/w/kb", "/w/kb-platform", "/w"}

\* Installer.PM.Name() of the two backends
PMNames == {"npm", "pnpm"}

\* the manifests of the lifecycle specification: the empty one, one with a
\* default service, and one whose references repeat across its groups
M0 == Manifest("0.0.0", <<>>, <<>>, <<>>)
M1 == Manifest("1.0.0", <<Package("A")>>, <<Component("s1", "B", TRUE)>>, <<>>)
M2 == Manifest("1.1.0", <<Package("A"), Package("C")>>,
               <<Component("s1", "C", FALSE), Component("s2", "A", TRUE)>>,
               <<Component("p1", "C", TRUE)>>)
Manifests == {M0, M1, M2}

\* the chosen ids (services, plugins) of the lifecycle specification: nothing
\* chosen, and lists with unknown and repeated ids in another order than
\* the manifest's
Choices == {<< <<>>, <<>> >>,
            << <<"zz", "s2", "s1", "s2">>, <<"p1", "s1">> >>}

Range(s) == {s[i] : i \in 1..Len(s)}

\* all sequences over S of length at most n
SeqsUpTo(S, n) == UNION {[1..k -> S] : k \in 0..n}

\* the orders in which `for k := range m` may visit the keys S of a map
Orders(S) == {o \in [1..Cardinality(S) -> S] : Range(o) = S}

-----------------------------------------------------------------------------
(* internal/config *)

configVersion == 1

\* filepath.Abs: a relative path is joined to the working directory
Abs(path) == IF path = "kb" THEN "/w/kb" ELSE path

\* the directory holding .kb/kb.config.json for a platformDir argument; the
\* operating system resolves the joined path like Abs does
ConfigPath(platformDir) == IF platformDir = "kb" THEN "/w/kb" ELSE platformDir

NewConfig(platformDir, cwd, pmName, m, now) ==
    [Version     |-> configVersion,
     Platform    |-> Abs(platformDir),
     CWD         |-> Abs(cwd),
     PM          |-> pmName,
     InstalledAt |-> now,
     Manifest    |-> m]

\* json.MarshalIndent of a PlatformConfig: the fields under their json tags
MarshalComponent(c) ==
    [id |-> c.ID, pkg |-> c.Pkg, description |-> c.Description, default |-> c.Default]

MarshalManifest(m) ==
    [version     |-> m.Version,
     registryUrl |-> m.RegistryURL,
     core        |-> [i \in 1..Len(m.Core) |-> [name |-> m.Core[i].Name]],
     services    |-> [i \in 1..Len(m.Services) |-> MarshalComponent(m.Services[i])],
     plugins     |-> [i \in 1..Len(m.Plugins) |-> MarshalComponent(m.Plugins[i])]]

Marshal(cfg) ==
    [installedAt |-> cfg.InstalledAt,
     platform    |-> cfg.Platform,
     cwd         |-> cfg.CWD,
     pm          |-> cfg.PM,
     manifest    |-> MarshalManifest(cfg.Manifest),
     version     |-> cfg.Version]

\* json.Unmarshal into a PlatformConfig
UnmarshalComponent(j) ==
    [ID |-> j.id, Pkg |-> j.pkg, Description |-> j.description, Default |-> j.default]

UnmarshalManifest(j) ==
    [Version     |-> j.version,
     RegistryURL |-> j.registryUrl,
     Core        |-> [i \in 1..Len(j.core) |-> [Name |-> j.core[i].name]],
     Services    |-> [i \in 1..Len(j.services) |-> UnmarshalComponent(j.services[i])],
     Plugins     |-> [i \in 1..Len(j.plugins) |-> UnmarshalComponent(j.plugins[i])]]

\* Unmarshal that reads the two directories from each other's field
Unmarshal_SwapDirs(j) ==
    [InstalledAt |-> j.installedAt,
     Platform    |-> j.cwd,
     CWD         |-> j.platform,
     PM          |-> j.pm,
     Manifest    |-> UnmarshalManifest(j.manifest),
     Version     |-> j.version]

Unmarshal(j) ==
    [InstalledAt |-> j.installedAt,
     Platform    |-> j.platform,
     CWD         |-> j.cwd,
     PM          |-> j.pm,
     Manifest    |-> UnmarshalManifest(j.manifest),
     Version     |-> j.version]

\* contents of a snapshot file
Absent == [kind |-> "absent"]
Corrupt == [kind |-> "corrupt"]
Json(doc) == [kind |-> "json", doc |-> doc]

NoError == <<>>
NoConfig == [none |-> TRUE]

\* Read that answers a missing file with an empty record
Read_Invent(fs, platformDir) ==
    LET f == fs[IF platformDir = "kb" THEN "/w/kb" ELSE platformDir] IN
    IF f.kind = "absent"
    THEN {[err |-> <<>>,
           cfg |-> [InstalledAt |-> 0, Platform |-> "", CWD |-> "", PM |-> "",
                    Manifest |-> [Version |-> "", RegistryURL |-> "", Core |-> <<>>,
                                  Services |-> <<>>, Plugins |-> <<>>],
                    Version |-> 0]]}
    ELSE {[err |-> <<"read config">>, cfg |-> [none |-> TRUE]]} \cup
         (IF f.kind = "corrupt"
          THEN {[err |-> <<"parse config">>, cfg |-> [none |-> TRUE]]}
          ELSE {[err |-> <<>>, cfg |-> Unmarshal(f.doc)]})

\* Read that reports a file that does not parse as a missing one
Read_CorruptAsMissing(fs, platformDir) ==
    LET f == fs[ConfigPath(platformDir)] IN
    IF f.kind \in {"absent", "corrupt"}
    THEN {[err |-> <<"no config found">>, cfg |-> [none |-> TRUE]]}
    ELSE {[err |-> <<"read config">>, cfg |-> [none |-> TRUE]],
          [err |-> <<>>, cfg |-> Unmarshal(f.doc)]}

\* config.Read: the results it can return for the file system fs.  A missing
\* file is the not-found error, an unreadable one a read error, one that
\* does not parse a parse error.
Read(fs, platformDir) ==
    LET f == fs[ConfigPath(platformDir)] IN
    IF f.kind = "absent"
    THEN {[err |-> <<"no config found">>, cfg |-> NoConfig]}
    ELSE {[err |-> <<"read config">>, cfg |-> NoConfig]} \cup
         (IF f.kind = "corrupt"
          THEN {[err |-> <<"parse config">>, cfg |-> NoConfig]}
          ELSE {[err |-> NoError, cfg |-> Unmarshal(f.doc)]})

\* config.Write: the outcomes it can have.  MkdirAll may fail when it has to
\* create the directory; os.WriteFile may fail before it opened the file or
\* after it truncated it.
Write(fs, dirs, platformDir, cfg) ==
    LET loc == ConfigPath(platformDir) IN
    (IF loc \in dirs THEN {}
     ELSE {[err |-> <<"create config dir">>, files |-> fs, kbDirs |-> dirs]}) \cup
    {[err |-> <<"write config">>, files |-> fs, kbDirs |-> dirs \cup {loc}],
     [err |-> <<"write config">>, files |-> [fs EXCEPT ![loc] = Corrupt],
      kbDirs |-> dirs \cup {loc}],
     [err |-> NoError, files |-> [fs EXCEPT ![loc] = Json(Marshal(cfg))],
      kbDirs |-> dirs \cup {loc}]}

\* fmt.Errorf("<stage>: %w", err)
Wrap(stage, err) == <<stage>> \o err


-----------------------------------------------------------------------------
(* internal/installer: helpers *)

Selection(platformDir, cwd, services, plugins) ==
    [PlatformDir |-> platformDir, ProjectCWD |-> cwd,
     Services |-> services, Plugins |-> plugins]

UpdateDiff(updated, added, removed) ==
    [Updated |-> updated, Added |-> added, Removed |-> removed]

\* HasChanges that forgets the removed packages
HasChanges_NoRemoved(d) == Len(d.Updated) + Len(d.Added) > 0

HasChanges(d) == Len(d.Updated) + Len(d.Added) + Len(d.Removed) > 0

\* selectedPkgs that walks the ids and looks each one up
selectedPkgs_ByIds(components, ids) ==
    LET pick(id) == SelectSeq(components, LAMBDA c : c.ID = id)
        F[i \in 0..Len(ids)] ==
            IF i = 0 THEN <<>>
            ELSE F[i-1] \o [k \in 1..Len(pick(ids[i])) |-> pick(ids[i])[k].Pkg]
    IN  F[Len(ids)]

\* selectedPkgs that also takes the components marked Default
selectedPkgs_Defaults(components, ids) ==
    LET set == Range(ids)
        out == SelectSeq(components, LAMBDA c : c.ID \in set \/ c.Default)
    IN  [i \in 1..Len(out) |-> out[i].Pkg]

\* the components whose id is in ids, in the order of components
selectedPkgs(components, ids) ==
    LET set == Range(ids)
        out == SelectSeq(components, LAMBDA c : c.ID \in set)
    IN  [i \in 1..Len(out) |-> out[i].Pkg]

pkgSet(m) ==
    {m.Core[i].Name : i \in 1..Len(m.Core)} \cup
    {c.Pkg : c \in Range(m.Services \o m.Plugins)}

\* Install's package list
InstallPkgs(sel, m) ==
    CorePackageNames(m) \o selectedPkgs(m.Services, sel.Services)
                        \o selectedPkgs(m.Plugins, sel.Plugins)

\* Update's package list without the plugins
UpdatePkgs_NoPlugins(current) ==
    CorePackageNames(current)
      \o [i \in 1..Len(current.Services) |-> current.Services[i].Pkg]

\* Update's package list
UpdatePkgs(current) ==
    LET cs == current.Services \o current.Plugins
    IN  CorePackageNames(current) \o [i \in 1..Len(cs) |-> cs[i].Pkg]

\* Diff whose first loop lacks the else: every current package is "updated"
DiffLoops_NoElse(installed, currentSet, o1, o2) ==
    UpdateDiff(o1,
               SelectSeq(o1, LAMBDA p : p \notin installed),
               SelectSeq(o2, LAMBDA p : p \notin currentSet))

\* Diff with a version comparison that finds every present package unchanged
DiffLoops_Versions(installed, currentSet, o1, o2) ==
    UpdateDiff(<<>>,
               SelectSeq(o1, LAMBDA p : p \notin installed),
               SelectSeq(o2, LAMBDA p : p \notin currentSet))

\* the two loops of Diff, visiting currentSet in the order o1 and installed
\* in the order o2
DiffLoops(installed, currentSet, o1, o2) ==
    UpdateDiff(SelectSeq(o1, LAMBDA p : p \in installed),
               SelectSeq(o1, LAMBDA p : p \notin installed),
               SelectSeq(o2, LAMBDA p : p \notin currentSet))

NoDiff == [none |-> TRUE]

\* Installer.Diff: the results it can return
Diff(fs, platformDir, current) ==
    UNION {
        IF r.err # NoError
        THEN {[err |-> r.err, diff |-> NoDiff]}
        ELSE LET installed == pkgSet(r.cfg.Manifest)
                 currentSet == pkgSet(current)
             IN  {[err |-> NoError,
                   diff |-> DiffLoops(installed, currentSet, o1, o2)] :
                     o1 \in Orders(currentSet), o2 \in Orders(installed)}
        : r \in Read(fs, platformDir)}

-----------------------------------------------------------------------------
(* The orchestration calls *)

Ev(ev, dir, pkgs) == [ev |-> ev, dir |-> dir, pkgs |-> pkgs]

NoOp == [kind |-> "none"]
NoResult == [none |-> TRUE]
Ok == [err |-> NoError]
Failed(err) == [err |-> err]
NoFn == [name |-> "none"]
NoRun == [stage |-> "none"]
NoPrev == [none |-> TRUE]
NoCli == [cmd |-> "none"]

\* an error of the package manager process
ExecError == <<"exit status 1">>

Init ==
    /\ files = [l \in Locations |-> Absent]
    /\ kbDirs = {}
    /\ clock = 0
    /\ pc = "idle"
    /\ op = NoOp
    /\ trace = <<>>
    /\ pre = files
    /\ result = NoResult
    /\ diff = NoDiff
    /\ installs = {}
    /\ fn = NoFn
    /\ run = NoRun
    /\ prev = NoPrev
    /\ cli = NoCli

\* InstallCall that announces stage 1 after handing the packages to install
InstallCall_StepAfter(sel, m, name) ==
    /\ pc = "idle"
    /\ clock < MaxClock
    /\ pc' = "install.pm"
    /\ op' = [kind |-> "Install", sel |-> sel, m |-> m, pm |-> name]
    /\ trace' = <<Ev("pm.install", sel.PlatformDir, InstallPkgs(sel, m)),
                  Ev("step 1/2", "", <<>>)>>
    /\ pre' = files
    /\ result' = NoResult
    /\ diff' = NoDiff
    /\ prev' = NoPrev
    /\ UNCHANGED <<files, kbDirs, clock, installs, fn, run, cli>>

\* Install is called: the package list is collected, stage 1 is announced
\* and the capability's install is running.
InstallCall(sel, m, name) ==
    /\ pc = "idle"
    /\ clock < MaxClock
    /\ pc' = "install.pm"
    /\ op' = [kind |-> "Install", sel |-> sel, m |-> m, pm |-> name]
    /\ trace' = <<Ev("step 1/2", "", <<>>),
                  Ev("pm.install", sel.PlatformDir, InstallPkgs(sel, m))>>
    /\ pre' = files
    /\ result' = NoResult
    /\ diff' = NoDiff
    /\ prev' = NoPrev
    /\ UNCHANGED <<files, kbDirs, clock, installs, fn, run, cli>>

\* InstallPMReturn that tries the install a second time when it failed
InstallPMReturn_Retry(ok) ==
    /\ pc = "install.pm"
    /\ IF ok
       THEN /\ trace' = trace \o <<Ev("pm.install.ok", "", <<>>),
                                   Ev("step 2/2", "", <<>>)>>
            /\ clock' = clock + 1
            /\ pc' = "install.write"
            /\ UNCHANGED result
       ELSE IF Len(trace) < 4
            THEN /\ trace' = trace \o <<Ev("pm.install.err", "", <<>>), trace[2]>>
                 /\ UNCHANGED <<pc, result, clock>>
            ELSE /\ trace' = Append(trace, Ev("pm.install.err", "", <<>>))
                 /\ result' = Failed(Wrap("install", ExecError))
                 /\ pc' = "done"
                 /\ UNCHANGED clock
    /\ UNCHANGED <<files, kbDirs, op, pre, diff, installs, fn, run, prev, cli>>

\* InstallPMReturn that goes on to write the config whatever install returned
InstallPMReturn_IgnoreErr(ok) ==
    /\ pc = "install.pm"
    /\ trace' = trace \o <<Ev(IF ok THEN "pm.install.ok" ELSE "pm.install.err", "", <<>>),
                            Ev("step 2/2", "", <<>>)>>
    /\ clock' = clock + 1
    /\ pc' = "install.write"
    /\ UNCHANGED <<files, kbDirs, op, pre, result, diff, installs, fn, run, prev, cli>>

\* installGroup returns.  On error Install returns; otherwise stage 2 is
\* announced and NewConfig takes the time.
InstallPMReturn(ok) ==
    /\ pc = "install.pm"
    /\ IF ok
       THEN /\ trace' = trace \o <<Ev("pm.install.ok", "", <<>>),
                                   Ev("step 2/2", "", <<>>)>>
            /\ clock' = clock + 1
            /\ pc' = "install.write"
            /\ UNCHANGED result
       ELSE /\ trace' = Append(trace, Ev("pm.install.err", "", <<>>))
            /\ result' = Failed(Wrap("install", ExecError))
            /\ pc' = "done"
            /\ UNCHANGED clock
    /\ UNCHANGED <<files, kbDirs, op, pre, diff, installs, fn, run, prev, cli>>

\* InstallWrite that keeps the timestamp of a snapshot it finds
InstallWrite_Merge ==
    /\ pc = "install.write"
    /\ LET old == files[ConfigPath(op.sel.PlatformDir)]
           new == NewConfig(op.sel.PlatformDir, op.sel.ProjectCWD, op.pm, op.m, clock)
           cfg == IF old.kind = "json"
                  THEN [new EXCEPT !.InstalledAt = old.doc.installedAt]
                  ELSE new
       IN  \E w \in Write(files, kbDirs, op.sel.PlatformDir, cfg) :
             /\ files' = w.files
             /\ kbDirs' = w.kbDirs
             /\ trace' = Append(trace, Ev("config.write", op.sel.PlatformDir, <<>>))
             /\ IF w.err = NoError
                THEN pc' = "install.mkdir" /\ UNCHANGED result
                ELSE pc' = "done" /\ result' = Failed(Wrap("config", w.err))
    /\ UNCHANGED <<clock, op, pre, diff, installs, fn, run, prev, cli>>

\* InstallWrite that stores only the chosen services and plugins
InstallWrite_Selected ==
    /\ pc = "install.write"
    /\ LET chosen(cs, ids) == SelectSeq(cs, LAMBDA c : c.ID \in Range(ids))
           m   == [op.m EXCEPT !.Services = chosen(op.m.Services, op.sel.Services),
                               !.Plugins = chosen(op.m.Plugins, op.sel.Plugins)]
           cfg == NewConfig(op.sel.PlatformDir, op.sel.ProjectCWD, op.pm, m, clock)
       IN  \E w \in Write(files, kbDirs, op.sel.PlatformDir, cfg) :
             /\ files' = w.files
             /\ kbDirs' = w.kbDirs
             /\ trace' = Append(trace, Ev("config.write", op.sel.PlatformDir, <<>>))
             /\ IF w.err = NoError
                THEN pc' = "install.mkdir" /\ UNCHANGED result
                ELSE pc' = "done" /\ result' = Failed(Wrap("config", w.err))
    /\ UNCHANGED <<clock, op, pre, diff, installs, fn, run, prev, cli>>

\* config.Write of the new snapshot
InstallWrite ==
    /\ pc = "install.write"
    /\ LET cfg == NewConfig(op.sel.PlatformDir, op.sel.ProjectCWD, op.pm, op.m, clock)
       IN  \E w \in Write(files, kbDirs, op.sel.PlatformDir, cfg) :
             /\ files' = w.files
             /\ kbDirs' = w.kbDirs
             /\ trace' = Append(trace, Ev("config.write", op.sel.PlatformDir, <<>>))
             /\ IF w.err = NoError
                THEN pc' = "install.mkdir" /\ UNCHANGED result
                ELSE pc' = "done" /\ result' = Failed(Wrap("config", w.err))
    /\ UNCHANGED <<clock, op, pre, diff, installs, fn, run, prev, cli>>

\* InstallMkdir with os.Mkdir: an existing directory is an error
InstallMkdir_Exclusive(ok) ==
    /\ pc = "install.mkdir"
    /\ ok => Abs(op.sel.ProjectCWD) \notin kbDirs
    /\ trace' = Append(trace, Ev("mkdir", op.sel.ProjectCWD, <<>>))
    /\ IF ok
       THEN /\ kbDirs' = kbDirs \cup {Abs(op.sel.ProjectCWD)}
            /\ result' = Ok
            /\ installs' = installs \cup {ConfigPath(op.sel.PlatformDir)}
       ELSE /\ UNCHANGED <<kbDirs, installs>>
            /\ result' = Failed(Wrap("project dir", <<"mkdir">>))
    /\ pc' = "done"
    /\ UNCHANGED <<files, clock, op, pre, diff, fn, run, prev, cli>>

\* os.MkdirAll(<ProjectCWD>/.kb): succeeds when the directory exists
InstallMkdir(ok) ==
    /\ pc = "install.mkdir"
    /\ ok \/ Abs(op.sel.ProjectCWD) \notin kbDirs
    /\ trace' = Append(trace, Ev("mkdir", op.sel.ProjectCWD, <<>>))
    /\ IF ok
       THEN /\ kbDirs' = kbDirs \cup {Abs(op.sel.ProjectCWD)}
            /\ result' = Ok
            /\ installs' = installs \cup {ConfigPath(op.sel.PlatformDir)}
       ELSE /\ UNCHANGED <<kbDirs, installs>>
            /\ result' = Failed(Wrap("project dir", <<"mkdir">>))
    /\ pc' = "done"
    /\ UNCHANGED <<files, clock, op, pre, diff, fn, run, prev, cli>>

\* Diff that stores the candidate as the new snapshot manifest
DiffCall_Commit(platformDir, current) ==
    /\ pc = "idle"
    /\ \E d \in Diff(files, platformDir, current) :
         /\ diff' = d.diff
         /\ result' = [err |-> d.err]
         /\ files' = IF d.err # NoError THEN files
                     ELSE [files EXCEPT ![ConfigPath(platformDir)] =
                             Json([@.doc EXCEPT !.manifest = MarshalManifest(current)])]
    /\ pc' = "done"
    /\ op' = [kind |-> "Diff", platformDir |-> platformDir, m |-> current]
    /\ trace' = <<Ev("config.read", platformDir, <<>>)>>
    /\ pre' = files
    /\ prev' = NoPrev
    /\ UNCHANGED <<kbDirs, clock, installs, fn, run, cli>>

\* Diff is called and returns
DiffCall(platformDir, current) ==
    /\ pc = "idle"
    /\ \E d \in Diff(files, platformDir, current) :
         /\ diff' = d.diff
         /\ result' = [err |-> d.err]
    /\ pc' = "done"
    /\ op' = [kind |-> "Diff", platformDir |-> platformDir, m |-> current]
    /\ trace' = <<Ev("config.read", platformDir, <<>>)>>
    /\ pre' = files
    /\ prev' = NoPrev
    /\ UNCHANGED <<files, kbDirs, clock, installs, fn, run, cli>>

\* UpdateCall that hands the whole candidate list to install
UpdateCall_InstallAll(platformDir, current, name) ==
    /\ pc = "idle"
    /\ op' = [kind |-> "Update", platformDir |-> platformDir, m |-> current, pm |-> name]
    /\ pre' = files
    /\ \E d \in Diff(files, platformDir, current) :
         /\ diff' = d.diff
         /\ IF d.err # NoError
            THEN /\ result' = Failed(d.err)
                 /\ pc' = "done"
                 /\ trace' = <<Ev("config.read", platformDir, <<>>)>>
            ELSE /\ result' = NoResult
                 /\ IF Len(d.diff.Added) > 0
                    THEN /\ pc' = "update.install"
                         /\ trace' = <<Ev("config.read", platformDir, <<>>),
                                       Ev("pm.install", platformDir,
                                          d.diff.Added \o d.diff.Updated)>>
                    ELSE /\ pc' = "update.pm"
                         /\ trace' = <<Ev("config.read", platformDir, <<>>),
                                       Ev("pm.update", platformDir, UpdatePkgs(current))>>
    /\ prev' = IF prev # NoPrev /\ prev.platformDir = platformDir /\ prev.m = current
               THEN prev ELSE NoPrev
    /\ UNCHANGED <<files, kbDirs, clock, installs, fn, run, cli>>

\* Update is called: it computes the diff, and then the capability's install
\* is running for the added packages or, when there are none, its update for
\* all packages.
UpdateCall(platformDir, current, name) ==
    /\ pc = "idle"
    /\ op' = [kind |-> "Update", platformDir |-> platformDir, m |-> current, pm |-> name]
    /\ pre' = files
    /\ \E d \in Diff(files, platformDir, current) :
         /\ diff' = d.diff
         /\ IF d.err # NoError
            THEN /\ result' = Failed(d.err)
                 /\ pc' = "done"
                 /\ trace' = <<Ev("config.read", platformDir, <<>>)>>
            ELSE /\ result' = NoResult
                 /\ IF Len(d.diff.Added) > 0
                    THEN /\ pc' = "update.install"
                         /\ trace' = <<Ev("config.read", platformDir, <<>>),
                                       Ev("pm.install", platformDir, d.diff.Added)>>
                    ELSE /\ pc' = "update.pm"
                         /\ trace' = <<Ev("config.read", platformDir, <<>>),
                                       Ev("pm.update", platformDir, UpdatePkgs(current))>>
    /\ prev' = IF prev # NoPrev /\ prev.platformDir = platformDir /\ prev.m = current
               THEN prev ELSE NoPrev
    /\ UNCHANGED <<files, kbDirs, clock, installs, fn, run, cli>>

\* installGroup(diff.Added) returns; on success updateGroup is called
\* UpdateInstallReturn that stores the candidate manifest as soon as the added
\* packages are installed
UpdateInstallReturn_WriteEarly(ok) ==
    /\ pc = "update.install"
    /\ IF ok
       THEN /\ trace' = trace \o <<Ev("pm.install.ok", "", <<>>),
                                   Ev("config.write", op.platformDir, <<>>),
                                   Ev("pm.update", op.platformDir, UpdatePkgs(op.m))>>
            /\ files' = [files EXCEPT ![ConfigPath(op.platformDir)] =
                           Json(Marshal([Unmarshal(@.doc) EXCEPT !.Manifest = op.m]))]
            /\ pc' = "update.pm"
            /\ UNCHANGED result
       ELSE /\ trace' = Append(trace, Ev("pm.install.err", "", <<>>))
            /\ result' = Failed(Wrap("add new packages", ExecError))
            /\ pc' = "done"
            /\ UNCHANGED files
    /\ UNCHANGED <<kbDirs, clock, op, pre, diff, installs, fn, run, prev, cli>>

UpdateInstallReturn(ok) ==
    /\ pc = "update.install"
    /\ IF ok
       THEN /\ trace' = trace \o <<Ev("pm.install.ok", "", <<>>),
                                   Ev("pm.update", op.platformDir, UpdatePkgs(op.m))>>
            /\ pc' = "update.pm"
            /\ UNCHANGED result
       ELSE /\ trace' = Append(trace, Ev("pm.install.err", "", <<>>))
            /\ result' = Failed(Wrap("add new packages", ExecError))
            /\ pc' = "done"
    /\ UNCHANGED <<files, kbDirs, clock, op, pre, diff, installs, fn, run, prev, cli>>

\* UpdatePMReturn that refreshes the snapshot whatever update returned
UpdatePMReturn_IgnoreErr(ok) ==
    /\ pc = "update.pm"
    /\ trace' = Append(trace, Ev(IF ok THEN "pm.update.ok" ELSE "pm.update.err", "", <<>>))
    /\ pc' = "update.refresh"
    /\ UNCHANGED <<files, kbDirs, clock, op, pre, result, diff, installs, fn, run, prev, cli>>

\* UpdatePMReturn that removes the added packages again when update failed
UpdatePMReturn_Compensate(ok) ==
    /\ pc = "update.pm"
    /\ IF ok
       THEN /\ trace' = Append(trace, Ev("pm.update.ok", "", <<>>))
            /\ pc' = "update.refresh"
            /\ UNCHANGED result
       ELSE /\ trace' = trace \o <<Ev("pm.update.err", "", <<>>),
                                   Ev("pm.remove", op.platformDir, diff.Added)>>
            /\ result' = Failed(Wrap("update packages", ExecError))
            /\ pc' = "done"
    /\ UNCHANGED <<files, kbDirs, clock, op, pre, diff, installs, fn, run, prev, cli>>

\* updateGroup returns
UpdatePMReturn(ok) ==
    /\ pc = "update.pm"
    /\ IF ok
       THEN /\ trace' = Append(trace, Ev("pm.update.ok", "", <<>>))
            /\ pc' = "update.refresh"
            /\ UNCHANGED result
       ELSE /\ trace' = Append(trace, Ev("pm.update.err", "", <<>>))
            /\ result' = Failed(Wrap("update packages", ExecError))
            /\ pc' = "done"
    /\ UNCHANGED <<files, kbDirs, clock, op, pre, diff, installs, fn, run, prev, cli>>

\* UpdateRefresh that records the package manager of the update
UpdateRefresh_Rebuild ==
    /\ pc = "update.refresh"
    /\ \E r \in Read(files, op.platformDir) :
         IF r.err # NoError
         THEN /\ result' = Failed(r.err)
              /\ trace' = Append(trace, Ev("config.read", op.platformDir, <<>>))
              /\ UNCHANGED <<files, kbDirs>>
         ELSE \E w \in Write(files, kbDirs, op.platformDir,
                              [r.cfg EXCEPT !.Manifest = op.m, !.PM = op.pm]) :
                /\ files' = w.files
                /\ kbDirs' = w.kbDirs
                /\ trace' = trace \o <<Ev("config.read", op.platformDir, <<>>),
                                        Ev("config.write", op.platformDir, <<>>)>>
                /\ result' = IF w.err = NoError THEN Ok ELSE Failed(w.err)
    /\ pc' = "done"
    /\ UNCHANGED <<clock, op, pre, diff, installs, fn, run, prev, cli>>

\* UpdateRefresh that writes the snapshot back with the manifest it had
UpdateRefresh_Keep ==
    /\ pc = "update.refresh"
    /\ \E r \in Read(files, op.platformDir) :
         IF r.err # NoError
         THEN /\ result' = Failed(r.err)
              /\ trace' = Append(trace, Ev("config.read", op.platformDir, <<>>))
              /\ UNCHANGED <<files, kbDirs>>
         ELSE \E w \in Write(files, kbDirs, op.platformDir, r.cfg) :
                /\ files' = w.files
                /\ kbDirs' = w.kbDirs
                /\ trace' = trace \o <<Ev("config.read", op.platformDir, <<>>),
                                        Ev("config.write", op.platformDir, <<>>)>>
                /\ result' = IF w.err = NoError THEN Ok ELSE Failed(w.err)
    /\ pc' = "done"
    /\ UNCHANGED <<clock, op, pre, diff, installs, fn, run, prev, cli>>

\* "Refresh config snapshot": the snapshot is read again, its manifest
\* replaced and the record written back
UpdateRefresh ==
    /\ pc = "update.refresh"
    /\ \E r \in Read(files, op.platformDir) :
         IF r.err # NoError
         THEN /\ result' = Failed(r.err)
              /\ trace' = Append(trace, Ev("config.read", op.platformDir, <<>>))
              /\ UNCHANGED <<files, kbDirs>>
         ELSE \E w \in Write(files, kbDirs, op.platformDir,
                              [r.cfg EXCEPT !.Manifest = op.m]) :
                /\ files' = w.files
                /\ kbDirs' = w.kbDirs
                /\ trace' = trace \o <<Ev("config.read", op.platformDir, <<>>),
                                        Ev("config.write", op.platformDir, <<>>)>>
                /\ result' = IF w.err = NoError THEN Ok ELSE Failed(w.err)
    /\ pc' = "done"
    /\ UNCHANGED <<clock, op, pre, diff, installs, fn, run, prev, cli>>

\* the caller takes the result; the engine is ready for the next call
Return ==
    /\ pc = "done"
    /\ pc' = "idle"
    /\ op' = NoOp
    /\ trace' = <<>>
    /\ pre' = files
    /\ result' = NoResult
    /\ diff' = NoDiff
    /\ prev' = IF /\ op.kind = "Update"
                  /\ \E i \in DOMAIN trace : trace[i].ev = "pm.install.ok"
                  /\ trace[Len(trace)].ev = "pm.update.err"
               THEN [platformDir |-> op.platformDir, m |-> op.m, added |-> Range(diff.Added)]
               ELSE NoPrev
    /\ UNCHANGED <<files, kbDirs, clock, installs, fn, run, cli>>

Next ==
    \/ \E p \in Paths, c \in Paths, ch \in Choices, m \in Manifests, name \in PMNames :
            InstallCall(Selection(p, c, ch[1], ch[2]), m, name)
    \/ \E ok \in BOOLEAN : InstallPMReturn(ok)
    \/ InstallWrite
    \/ \E ok \in BOOLEAN : InstallMkdir(ok)
    \/ \E p \in Paths, m \in Manifests : DiffCall(p, m)
    \/ \E p \in Paths, m \in Manifests, name \in PMNames : UpdateCall(p, m, name)
    \/ \E ok \in BOOLEAN : UpdateInstallReturn(ok)
    \/ \E ok \in BOOLEAN : UpdatePMReturn(ok)
    \/ UpdateRefresh
    \/ Return

Spec == Init /\ [][Next]_vars


-----------------------------------------------------------------------------
(* internal/manifest/loader.go *)

NoManifest == [none |-> TRUE]

\* what the three sources hold in the model: the manifest the remote URL
\* serves, the one in the override file, and the embedded one
RemoteManifest == M2
LocalManifest == M1
embeddedManifest == Json(MarshalManifest(M0))

\* json.Unmarshal of the bytes of a manifest
loadBytes(data) ==
    IF data.kind = "json"
    THEN [m |-> UnmarshalManifest(data.doc), err |-> NoError]
    ELSE [m |-> NoManifest, err |-> <<"parse manifest">>]

\* the answers of the remote server: no answer, a status other than 200, a
\* body that cannot be read, and 200 with a body that parses or does not
Responses ==
    {[kind |-> "transport"], [kind |-> "status"], [kind |-> "body"],
     [kind |-> "ok", data |-> Json(MarshalManifest(RemoteManifest))],
     [kind |-> "ok", data |-> Corrupt]}

loadRemote(resp) ==
    CASE resp.kind = "transport" -> [m |-> NoManifest, err |-> <<"fetch">>]
      [] resp.kind = "status"    -> [m |-> NoManifest, err |-> <<"fetch", "status">>]
      [] resp.kind = "body"      -> [m |-> NoManifest, err |-> <<"read body">>]
      [] resp.kind = "ok"        -> loadBytes(resp.data)

\* what os.ReadFile finds at the override path: no file, a file that cannot
\* be read, a file with a manifest and a file that does not parse
OverrideFiles ==
    {[kind |-> "absent"], [kind |-> "unreadable"],
     Json(MarshalManifest(LocalManifest)), Corrupt}

\* LoadOptions: the empty string is "not set"
LoadOptions == [RemoteURL : {"", "https://r/manifest.json"},
                LocalOverride : {"", "/w/manifest.json"}]

\* Load that returns the error of a failed remote fetch
Load_RemoteFatal(opts, resp, file) ==
    IF opts.RemoteURL # ""
    THEN loadRemote(resp)
    ELSE IF opts.LocalOverride # "" /\ file.kind \in {"json", "corrupt"}
    THEN loadBytes(file)
    ELSE IF opts.LocalOverride # "" /\ file.kind # "absent"
    THEN [m |-> NoManifest, err |-> <<"read override">>]
    ELSE loadBytes(embeddedManifest)

\* Load that uses the embedded manifest when the override does not parse
Load_SilentFallback(opts, resp, file) ==
    IF opts.RemoteURL # "" /\ loadRemote(resp).err = NoError
    THEN loadRemote(resp)
    ELSE IF opts.LocalOverride # "" /\ file.kind = "json"
    THEN loadBytes(file)
    ELSE IF opts.LocalOverride # "" /\ file.kind = "unreadable"
    THEN [m |-> NoManifest, err |-> <<"read override">>]
    ELSE loadBytes(embeddedManifest)

\* Load: remote URL, then local override file, then embedded JSON.  resp is
\* the server's answer and file what is at the override path.
Load(opts, resp, file) ==
    IF opts.RemoteURL # "" /\ loadRemote(resp).err = NoError
    THEN loadRemote(resp)
    ELSE IF opts.LocalOverride # "" /\ file.kind \in {"json", "corrupt"}
    THEN loadBytes(file)
    ELSE IF opts.LocalOverride # "" /\ file.kind # "absent"
    THEN [m |-> NoManifest, err |-> <<"read override">>]
    ELSE loadBytes(embeddedManifest)


-----------------------------------------------------------------------------
(* internal/wizard/wizard.go: the helpers *)

\* os.UserHomeDir() and os.Getwd(): the program is run from the home directory
Home == "/w"
Getwd == "/w"

\* what the user can leave in a directory input: nothing, white space and a
\* relative path
DirTexts == {"", " ", "kb"}

\* expandHome: strings.HasPrefix(path, "~/") and filepath.Join(home, path[2:])
expandHome(path) == IF path = "~/kb" THEN "/w/kb" ELSE path

WizardOptions ==
    [Yes : BOOLEAN,
     DefaultProjectCWD : {"", "/opt/kb", "~/kb"},
     DefaultPlatformDir : {"", "/opt/kb", "~/kb"}]

\* the ids of the components marked Default, in the order of the list
RECURSIVE DefaultIds(_)
DefaultIds(components) ==
    IF components = <<>> THEN <<>>
    ELSE (IF Head(components).Default THEN <<Head(components).ID>> ELSE <<>>)
           \o DefaultIds(Tail(components))

\* defaultSelection that chooses every component
defaultSelection_All(m, opts) ==
    LET platformDir == IF opts.DefaultPlatformDir = "" THEN "/w/kb-platform"
                       ELSE opts.DefaultPlatformDir
        cwd == IF opts.DefaultProjectCWD = "" THEN Getwd ELSE opts.DefaultProjectCWD
    IN  Selection(expandHome(platformDir), expandHome(cwd),
                  [i \in DOMAIN m.Services |-> m.Services[i].ID],
                  [i \in DOMAIN m.Plugins |-> m.Plugins[i].ID])

defaultSelection(m, opts) ==
    LET platformDir == IF opts.DefaultPlatformDir = "" THEN "/w/kb-platform"
                       ELSE opts.DefaultPlatformDir
        cwd == IF opts.DefaultProjectCWD = "" THEN Getwd ELSE opts.DefaultProjectCWD
    IN  Selection(expandHome(platformDir), expandHome(cwd),
                  DefaultIds(m.Services), DefaultIds(m.Plugins))


-----------------------------------------------------------------------------
(* The pure functions of the installer, applied to arbitrary inputs *)

\* every UpdateDiff value with lists of at most MaxDiffLen references
UpdateDiffs ==
    {UpdateDiff(u, a, r) : u \in SeqsUpTo(Pkgs, MaxDiffLen),
                           a \in SeqsUpTo(Pkgs, MaxDiffLen),
                           r \in SeqsUpTo(Pkgs, MaxDiffLen)}

\* component lists and id lists for selectedPkgs
SomeComponents ==
    {Component(id, pkg, FALSE) : id \in {"s1", "s2"}, pkg \in {"A", "B"}}
ComponentLists == SeqsUpTo(SomeComponents, MaxComps)
IdLists == SeqsUpTo({"s1", "s2", "zz"}, MaxIds)

\* the PlatformConfig records handed to Write
PlatformConfigs ==
    [Version : {0, configVersion}, Platform : Locations, CWD : Locations,
     PM : PMNames, InstalledAt : 0..MaxClock, Manifest : Manifests]

\* manifests for the wizard: up to two services and one plugin, with unique
\* ids and every combination of Default flags
WizardManifests ==
    {Manifest("w", <<Package("A")>>, sv, pl) :
       sv \in {<<>>} \cup {<<Component("s1", "B", d1), Component("s2", "C", d2)>> :
                              d1 \in BOOLEAN, d2 \in BOOLEAN},
       pl \in {<<>>} \cup {<<Component("p1", "D", d)>> : d \in BOOLEAN}}

FnInit ==
    /\ files = [l \in Locations |-> Absent]
    /\ kbDirs = {}
    /\ clock = 0
    /\ pc = "idle"
    /\ op = NoOp
    /\ trace = <<>>
    /\ pre = files
    /\ result = NoResult
    /\ diff = NoDiff
    /\ installs = {}
    /\ run = NoRun
    /\ prev = NoPrev
    /\ cli = NoCli
    /\ fn \in {[name |-> "HasChanges", d |-> d, done |-> FALSE] : d \in UpdateDiffs}
         \cup {[name |-> "selectedPkgs", components |-> cs, ids |-> ids, done |-> FALSE] :
                 cs \in ComponentLists, ids \in IdLists}
         \cup {[name |-> "WriteRead", platformDir |-> p, cfg |-> c, done |-> FALSE] :
                 p \in Paths, c \in PlatformConfigs}
         \cup {[name |-> "ReadMissing", platformDir |-> p, done |-> FALSE] : p \in Paths}
         \cup {[name |-> "Run", m |-> m, opts |-> o, done |-> FALSE] :
                 m \in WizardManifests, o \in {w \in WizardOptions : w.Yes}}
         \cup {[name |-> "Load", opts |-> o, resp |-> r, file |-> f, done |-> FALSE] :
                 o \in LoadOptions, r \in Responses, f \in OverrideFiles}

ApplyHasChanges ==
    /\ fn.name = "HasChanges" /\ ~fn.done
    /\ fn' = [name |-> "HasChanges", d |-> fn.d, done |-> TRUE, out |-> HasChanges(fn.d)]
    /\ UNCHANGED <<files, kbDirs, clock, pc, op, trace, pre, result, diff, installs, run, prev, cli>>

ApplySelectedPkgs ==
    /\ fn.name = "selectedPkgs" /\ ~fn.done
    /\ fn' = [name |-> "selectedPkgs", components |-> fn.components, ids |-> fn.ids,
              done |-> TRUE, out |-> selectedPkgs(fn.components, fn.ids)]
    /\ UNCHANGED <<files, kbDirs, clock, pc, op, trace, pre, result, diff, installs, run, prev, cli>>

\* Write(platformDir, cfg) followed by Read(platformDir)
ApplyWriteRead ==
    /\ fn.name = "WriteRead" /\ ~fn.done
    /\ \E w \in Write(files, kbDirs, fn.platformDir, fn.cfg) :
         /\ files' = w.files
         /\ kbDirs' = w.kbDirs
         /\ \E r \in Read(w.files, fn.platformDir) :
              fn' = [name |-> "WriteRead", platformDir |-> fn.platformDir, cfg |-> fn.cfg,
                     done |-> TRUE, werr |-> w.err, out |-> r]
    /\ UNCHANGED <<clock, pc, op, trace, pre, result, diff, installs, run, prev, cli>>

\* Read(platformDir) of a directory nothing was written to
ApplyReadMissing ==
    /\ fn.name = "ReadMissing" /\ ~fn.done
    /\ \E r \in Read(files, fn.platformDir) :
         fn' = [name |-> "ReadMissing", platformDir |-> fn.platformDir,
                done |-> TRUE, out |-> r]
    /\ UNCHANGED <<files, kbDirs, clock, pc, op, trace, pre, result, diff, installs, run, prev, cli>>

\* manifest.Load(opts) with the remote server and the override path as given
ApplyLoad ==
    /\ fn.name = "Load" /\ ~fn.done
    /\ fn' = [name |-> "Load", opts |-> fn.opts, resp |-> fn.resp, file |-> fn.file,
              done |-> TRUE, out |-> Load(fn.opts, fn.resp, fn.file)]
    /\ UNCHANGED <<files, kbDirs, clock, pc, op, trace, pre, result, diff, installs, run, prev, cli>>

\* wizard.Run(m, opts) with opts.Yes set
ApplyRunYes ==
    /\ fn.name = "Run" /\ ~fn.done
    /\ fn.opts.Yes
    /\ fn' = [name |-> "Run", m |-> fn.m, opts |-> fn.opts, done |-> TRUE,
              out |-> [sel |-> defaultSelection(fn.m, fn.opts), err |-> NoError]]
    /\ UNCHANGED <<files, kbDirs, clock, pc, op, trace, pre, result, diff, installs, run, prev, cli>>

FnNext ==
    \/ ApplyRunYes
    \/ ApplyHasChanges
    \/ ApplySelectedPkgs
    \/ ApplyWriteRead
    \/ ApplyReadMissing
    \/ ApplyLoad

SpecFn == FnInit /\ [][FnNext]_vars


-----------------------------------------------------------------------------
(* One capability call through runGroup: the engine's thread, its drain    *)
(* goroutine, and the two pipe goroutines of the npm / pnpm backend.       *)

Streams == {"stdout", "stderr"}

\* a line of process output: one with text and one of white space only
LineTexts == {"a", " "}

\* what the external process writes on its two streams
Outputs == [Streams -> SeqsUpTo(LineTexts, MaxLines)]

\* strings.TrimSpace
TrimSpace(line) == CASE line = " " -> "" [] line = " y " -> "y" [] OTHER -> line

\* pm.Progress carrying a raw line; stream and idx say which line it is
Progress(stream, idx, line) == [stream |-> stream, idx |-> idx, Line |-> line]

\* runGroup has made the channel and started the drain goroutine, and is
\* about to call op(dir, pkgs, ch)
RunInit ==
    /\ files = [l \in Locations |-> Absent]
    /\ kbDirs = {}
    /\ clock = 0
    /\ pc = "idle"
    /\ op = NoOp
    /\ trace = <<>>
    /\ pre = files
    /\ result = NoResult
    /\ diff = NoDiff
    /\ installs = {}
    /\ fn = NoFn
    /\ prev = NoPrev
    /\ cli = NoCli
    /\ \E out \in Outputs, hasOnLine \in BOOLEAN :
         run = [stage     |-> "call",
                out       |-> out,
                hasOnLine |-> hasOnLine,
                started   |-> FALSE,
                pos       |-> [s \in Streams |-> 1],
                piped     |-> {},
                ch        |-> <<>>,
                closed    |-> FALSE,
                drained   |-> FALSE,
                panic     |-> FALSE,
                err       |-> NoError,
                sent      |-> <<>>,
                log       |-> <<>>,
                online    |-> <<>>,
                events    |-> <<>>]

\* the backend returns before the process runs: ensurePackageJSON, the pipes
\* or cmd.Start failed
OpStartFail ==
    /\ run.stage = "call" /\ ~run.panic
    /\ run' = [run EXCEPT !.stage = "opret", !.err = ExecError,
                          !.events = Append(@, "op.return")]
    /\ UNCHANGED <<files, kbDirs, clock, pc, op, trace, pre, result, diff, installs, fn, prev, cli>>

\* cmd.Start succeeded; the two pipe goroutines are started and the backend
\* waits for both
OpStart ==
    /\ run.stage = "call" /\ ~run.panic
    /\ run' = [run EXCEPT !.stage = "piping", !.started = TRUE]
    /\ UNCHANGED <<files, kbDirs, clock, pc, op, trace, pre, result, diff, installs, fn, prev, cli>>

\* one iteration of a pipe goroutine's scanner loop: a line that is not blank
\* is sent on the progress channel, which blocks while the buffer is full
Pipe(s) ==
    /\ run.started /\ ~run.panic
    /\ run.pos[s] <= Len(run.out[s])
    /\ LET line == run.out[s][run.pos[s]]
           p    == Progress(s, run.pos[s], line)
       IN  IF TrimSpace(line) = ""
           THEN run' = [run EXCEPT !.pos[s] = @ + 1]
           ELSE IF run.closed
           THEN run' = [run EXCEPT !.panic = TRUE]
           ELSE /\ Len(run.ch) < ChanCap
                /\ run' = [run EXCEPT !.pos[s] = @ + 1,
                                      !.ch = Append(@, p),
                                      !.sent = Append(@, p)]
    /\ UNCHANGED <<files, kbDirs, clock, pc, op, trace, pre, result, diff, installs, fn, prev, cli>>

\* the scanner of a pipe goroutine reached the end of its stream
PipeDone(s) ==
    /\ run.started /\ ~run.panic
    /\ run.pos[s] > Len(run.out[s])
    /\ s \notin run.piped
    /\ run' = [run EXCEPT !.piped = @ \cup {s}]
    /\ UNCHANGED <<files, kbDirs, clock, pc, op, trace, pre, result, diff, installs, fn, prev, cli>>

\* backend that calls cmd.Wait without receiving from its done channel
OpReturn_NoWait(ok) ==
    /\ run.stage = "piping" /\ ~run.panic
    /\ run' = [run EXCEPT !.stage = "opret",
                          !.err = IF ok THEN NoError ELSE ExecError,
                          !.events = Append(@, "op.return")]
    /\ UNCHANGED <<files, kbDirs, clock, pc, op, trace, pre, result, diff, installs, fn, prev, cli>>

\* both pipe goroutines have signalled; cmd.Wait returns and so does op
OpReturn(ok) ==
    /\ run.stage = "piping" /\ ~run.panic
    /\ run.piped = Streams
    /\ run' = [run EXCEPT !.stage = "opret",
                          !.err = IF ok THEN NoError ELSE ExecError,
                          !.events = Append(@, "op.return")]
    /\ UNCHANGED <<files, kbDirs, clock, pc, op, trace, pre, result, diff, installs, fn, prev, cli>>

\* closing of the channel that does not wait for op to return
CloseCh_Early ==
    /\ run.stage \in {"piping", "opret"} /\ ~run.panic
    /\ run' = [run EXCEPT !.stage = "closed", !.closed = TRUE,
                          !.events = Append(@, "close")]
    /\ UNCHANGED <<files, kbDirs, clock, pc, op, trace, pre, result, diff, installs, fn, prev, cli>>

\* close(ch) moved behind <-done
CloseCh_AfterDone ==
    /\ run.stage = "opret" /\ ~run.panic
    /\ run.drained
    /\ run' = [run EXCEPT !.stage = "closed", !.closed = TRUE,
                          !.events = Append(@, "close")]
    /\ UNCHANGED <<files, kbDirs, clock, pc, op, trace, pre, result, diff, installs, fn, prev, cli>>

\* close(ch) after op has returned
CloseCh ==
    /\ run.stage = "opret" /\ ~run.panic
    /\ run' = [run EXCEPT !.stage = "closed", !.closed = TRUE,
                          !.events = Append(@, "close")]
    /\ UNCHANGED <<files, kbDirs, clock, pc, op, trace, pre, result, diff, installs, fn, prev, cli>>

\* drain loop that takes the newest line of the buffer
DrainRecv_Last ==
    /\ ~run.drained /\ ~run.panic
    /\ Len(run.ch) > 0
    /\ LET p == run.ch[Len(run.ch)] IN
       run' = [run EXCEPT !.ch = SubSeq(@, 1, Len(@) - 1),
                          !.log = IF p.Line = "" THEN @ ELSE Append(@, p),
                          !.online = IF p.Line = "" \/ ~run.hasOnLine
                                     THEN @ ELSE Append(@, p)]
    /\ UNCHANGED <<files, kbDirs, clock, pc, op, trace, pre, result, diff, installs, fn, prev, cli>>

\* one iteration of the drain goroutine's range loop: the oldest line of the
\* channel goes to the log and to OnLine, unless it is empty
DrainRecv ==
    /\ ~run.drained /\ ~run.panic
    /\ Len(run.ch) > 0
    /\ LET p == Head(run.ch) IN
       run' = [run EXCEPT !.ch = Tail(@),
                          !.log = IF p.Line = "" THEN @ ELSE Append(@, p),
                          !.online = IF p.Line = "" \/ ~run.hasOnLine
                                     THEN @ ELSE Append(@, p)]
    /\ UNCHANGED <<files, kbDirs, clock, pc, op, trace, pre, result, diff, installs, fn, prev, cli>>

\* the range loop ends on the closed, empty channel; the deferred close(done)
DrainDone ==
    /\ ~run.drained /\ ~run.panic
    /\ run.closed /\ run.ch = <<>>
    /\ run' = [run EXCEPT !.drained = TRUE, !.events = Append(@, "drain.done")]
    /\ UNCHANGED <<files, kbDirs, clock, pc, op, trace, pre, result, diff, installs, fn, prev, cli>>

\* runGroup that returns without receiving from done
RunGroupReturn_NoWait ==
    /\ run.stage = "closed" /\ ~run.panic
    /\ run' = [run EXCEPT !.stage = "returned", !.events = Append(@, "return")]
    /\ UNCHANGED <<files, kbDirs, clock, pc, op, trace, pre, result, diff, installs, fn, prev, cli>>

\* <-done, then runGroup returns op's error
RunGroupReturn ==
    /\ run.stage = "closed" /\ ~run.panic
    /\ run.drained
    /\ run' = [run EXCEPT !.stage = "returned", !.events = Append(@, "return")]
    /\ UNCHANGED <<files, kbDirs, clock, pc, op, trace, pre, result, diff, installs, fn, prev, cli>>

RunNext ==
    \/ OpStartFail
    \/ OpStart
    \/ \E s \in Streams : Pipe(s)
    \/ \E s \in Streams : PipeDone(s)
    \/ \E ok \in BOOLEAN : OpReturn(ok)
    \/ CloseCh
    \/ DrainRecv
    \/ DrainDone
    \/ RunGroupReturn

SpecRun == RunInit /\ [][RunNext]_vars

\* the steps of the goroutine that runs runGroup and, inside it, the backend
MainStep ==
    \/ OpStartFail
    \/ OpStart
    \/ \E ok \in BOOLEAN : OpReturn(ok)
    \/ CloseCh
    \/ RunGroupReturn

\* the steps of the pipe goroutine of stream s
PipeStep(s) == Pipe(s) \/ PipeDone(s)

\* the steps of the drain goroutine
DrainStep == DrainRecv \/ DrainDone

\* the Go scheduler runs every goroutine that can take a step, and the
\* external process ends after its output
RunFair ==
    /\ WF_vars(MainStep)
    /\ \A s \in Streams : WF_vars(PipeStep(s))
    /\ WF_vars(DrainStep)

SpecRunFair == RunInit /\ [][RunNext]_vars /\ RunFair


-----------------------------------------------------------------------------
(* The interactive wizard (internal/wizard/wizard.go) and the create        *)
(* command that runs it (cmd: runCreate).                                   *)

stageDirs == 0
stageOptions == 1
stageConfirm == 2

\* the keys the user can press; "x" stands for any key without a meaning
Keys == {"ctrl+c", "esc", "tab", "down", "up", "j", "k", " ", "enter",
         "n", "N", "y", "Y", "x"}

\* checkItem that starts unchecked
checkItem_Unchecked(c) == [id |-> c.ID, pkg |-> c.Pkg, checked |-> FALSE]

checkItem(c) == [id |-> c.ID, pkg |-> c.Pkg, checked |-> c.Default]

\* newModel.  toggles, visited and lastKey are history: how often each item
\* was toggled, the stages the wizard has been in, and the key that ended
\* the program.
newModel(m, opts) ==
    [stage         |-> stageDirs,
     platformInput |-> IF opts.DefaultPlatformDir = "" THEN "/w/kb-platform"
                       ELSE opts.DefaultPlatformDir,
     cwdInput      |-> IF opts.DefaultProjectCWD = "" THEN Getwd
                       ELSE opts.DefaultProjectCWD,
     activeInput   |-> 0,
     services      |-> [i \in DOMAIN m.Services |-> checkItem(m.Services[i])],
     plugins       |-> [i \in DOMAIN m.Plugins |-> checkItem(m.Plugins[i])],
     cursor        |-> 0,
     errMsg        |-> "",
     cancelled     |-> FALSE,
     confirmed     |-> FALSE,
     quit          |-> FALSE,
     panic         |-> FALSE,
     toggles       |-> [i \in 1..(Len(m.Services) + Len(m.Plugins)) |-> 0],
     visited       |-> <<stageDirs>>,
     lastKey       |-> ""]

validateDirs(w) ==
    IF TrimSpace(w.platformInput) = "" THEN "platform directory is required"
    ELSE IF TrimSpace(w.cwdInput) = "" THEN "project directory is required"
    ELSE ""

\* handleDirsKey; text is the value of the active input after a key that
\* goes to the text input
handleDirsKey(w, key, text) ==
    CASE key \in {"ctrl+c", "esc"} -> [w EXCEPT !.cancelled = TRUE, !.quit = TRUE]
      [] key \in {"tab", "down"}   -> [w EXCEPT !.activeInput = 1 - @]
      [] key = "enter" ->
           IF validateDirs(w) # ""
           THEN [w EXCEPT !.errMsg = validateDirs(w)]
           ELSE [w EXCEPT !.errMsg = "", !.stage = stageOptions, !.cursor = 0,
                          !.visited = Append(@, stageOptions)]
      [] OTHER ->
           IF w.activeInput = 0
           THEN [w EXCEPT !.platformInput = text]
           ELSE [w EXCEPT !.cwdInput = text]

\* toggleCursor that changes the item after the cursor's
toggleCursor_Next(w) ==
    LET total == Len(w.services) + Len(w.plugins)
        c == IF w.cursor + 1 < total THEN w.cursor + 1 ELSE 0
    IN  IF c < Len(w.services)
        THEN [w EXCEPT !.services[c + 1].checked = ~@,
                       !.toggles[w.cursor + 1] = @ + 1]
        ELSE IF c - Len(w.services) < Len(w.plugins)
        THEN [w EXCEPT !.plugins[c - Len(w.services) + 1].checked = ~@,
                       !.toggles[w.cursor + 1] = @ + 1]
        ELSE [w EXCEPT !.panic = TRUE, !.quit = TRUE]

\* toggleCursor: an index outside the plugin list is a run-time panic, which
\* ends the program
toggleCursor(w) ==
    IF w.cursor < Len(w.services)
    THEN [w EXCEPT !.services[w.cursor + 1].checked = ~@,
                   !.toggles[w.cursor + 1] = @ + 1]
    ELSE IF w.cursor - Len(w.services) < Len(w.plugins)
    THEN [w EXCEPT !.plugins[w.cursor - Len(w.services) + 1].checked = ~@,
                   !.toggles[w.cursor + 1] = @ + 1]
    ELSE [w EXCEPT !.panic = TRUE, !.quit = TRUE]

handleOptionsKey(w, key) ==
    LET total == Len(w.services) + Len(w.plugins) IN
    CASE key \in {"ctrl+c", "esc"} -> [w EXCEPT !.cancelled = TRUE, !.quit = TRUE]
      [] key \in {"up", "k"}   -> IF w.cursor > 0 THEN [w EXCEPT !.cursor = @ - 1] ELSE w
      [] key \in {"down", "j"} -> IF w.cursor < total - 1 THEN [w EXCEPT !.cursor = @ + 1] ELSE w
      [] key = " "             -> toggleCursor(w)
      [] key = "enter"         -> [w EXCEPT !.stage = stageConfirm,
                                            !.visited = Append(@, stageConfirm)]
      [] OTHER                 -> w

\* handleConfirmKey that takes any key for a yes
handleConfirmKey_AnyKey(w, key) ==
    CASE key \in {"ctrl+c", "esc"} -> [w EXCEPT !.cancelled = TRUE, !.quit = TRUE]
      [] OTHER                     -> [w EXCEPT !.confirmed = TRUE, !.quit = TRUE]

handleConfirmKey(w, key) ==
    CASE key \in {"ctrl+c", "esc", "n", "N"} -> [w EXCEPT !.cancelled = TRUE, !.quit = TRUE]
      [] key \in {"enter", "y", "Y"}         -> [w EXCEPT !.confirmed = TRUE, !.quit = TRUE]
      [] OTHER                               -> w

handleKey(w, key, text) ==
    CASE w.stage = stageDirs    -> handleDirsKey(w, key, text)
      [] w.stage = stageOptions -> handleOptionsKey(w, key)
      [] w.stage = stageConfirm -> handleConfirmKey(w, key)

\* the ids of the checked items of a list, in list order
RECURSIVE CheckedIds(_)
CheckedIds(items) ==
    IF items = <<>> THEN <<>>
    ELSE (IF Head(items).checked THEN <<Head(items).id>> ELSE <<>>)
           \o CheckedIds(Tail(items))

toSelection(w) ==
    Selection(expandHome(w.platformInput), expandHome(w.cwdInput),
              CheckedIds(w.services), CheckedIds(w.plugins))

NoWizard == [none |-> TRUE]
NoSelection == [none |-> TRUE]

\* the file systems a command can find: nothing installed, or a snapshot at
\* /opt/kb written by an earlier Install, or one in the working directory, or
\* a file at /opt/kb that does not parse
CliFiles ==
    {[l \in Locations |-> Absent]}
      \cup {[l \in Locations |->
               IF l = "/opt/kb"
               THEN Json(Marshal(NewConfig("/opt/kb", "/w", "npm", m, 0)))
               ELSE Absent] : m \in {M0, M1}}
      \cup {[l \in Locations |->
               IF l = Getwd
               THEN Json(Marshal(NewConfig(Getwd, Getwd, "npm", M1, 0)))
               ELSE Absent]}
      \cup {[l \in Locations |-> IF l = "/opt/kb" THEN Corrupt ELSE Absent]}

CliInit ==
    /\ files \in CliFiles
    /\ kbDirs = {l \in Locations : files[l].kind # "absent"}
    /\ clock = IF \E l \in Locations : files[l].kind = "json" THEN 1 ELSE 0
    /\ pc = "idle"
    /\ op = NoOp
    /\ trace = <<>>
    /\ pre = files
    /\ result = NoResult
    /\ diff = NoDiff
    /\ installs = {l \in Locations : files[l].kind = "json"}
    /\ fn = NoFn
    /\ run = NoRun
    /\ prev = NoPrev
    /\ cli = NoCli

\* kb-create [dir] [--yes] [--platform dir]: the manifest is loaded and
\* wizard.Run is called; with --yes it returns the default selection at once
CreateCmd(m, opts) ==
    /\ cli = NoCli
    /\ cli' = [cmd   |-> "create",
               pos   |-> IF opts.Yes THEN "prepare" ELSE "wizard",
               m     |-> m,
               w     |-> IF opts.Yes THEN NoWizard ELSE newModel(m, opts),
               sel   |-> IF opts.Yes THEN defaultSelection(m, opts) ELSE NoSelection,
               how   |-> IF opts.Yes THEN "yes" ELSE "",
               err   |-> NoError]
    /\ UNCHANGED <<files, kbDirs, clock, pc, op, trace, pre, result, diff, installs, fn, run, prev>>

\* the program hands a key to the wizard's Update
WizardKey(key, text) ==
    /\ cli.cmd = "create" /\ cli.pos = "wizard"
    /\ ~cli.w.quit
    /\ (cli.w.stage = stageOptions /\ key = " " /\ cli.w.cursor < Len(cli.w.toggles)) =>
          cli.w.toggles[cli.w.cursor + 1] < MaxToggles
    /\ (cli.w.stage # stageDirs \/ key \in {"ctrl+c", "esc", "tab", "down", "enter"}) =>
          text = ""
    /\ LET w == handleKey(cli.w, key, text) IN
       cli' = [cli EXCEPT !.w = [w EXCEPT !.lastKey = IF w.quit THEN key ELSE ""]]
    /\ UNCHANGED <<files, kbDirs, clock, pc, op, trace, pre, result, diff, installs, fn, run, prev>>

\* the program has ended and Run returns: an error after a panic or a
\* cancellation, the selection otherwise; how records which it was
WizardReturn ==
    /\ cli.cmd = "create" /\ cli.pos = "wizard"
    /\ cli.w.quit
    /\ cli' = IF cli.w.panic
              THEN [cli EXCEPT !.pos = "exit", !.w = NoWizard, !.how = "panic",
                               !.err = <<"program was killed">>]
              ELSE IF cli.w.cancelled
              THEN [cli EXCEPT !.pos = "exit", !.w = NoWizard, !.how = "cancelled",
                               !.err = <<"installation cancelled">>]
              ELSE [cli EXCEPT !.pos = "prepare", !.w = NoWizard,
                               !.how = IF cli.w.confirmed THEN "confirmed" ELSE "other",
                               !.sel = toSelection(cli.w)]
    /\ UNCHANGED <<files, kbDirs, clock, pc, op, trace, pre, result, diff, installs, fn, run, prev>>

\* runCreate creates the platform directory and the logger, which opens its
\* file under <PlatformDir>/.kb/logs; either can fail
CreatePrepare(ok) ==
    /\ cli.cmd = "create" /\ cli.pos = "prepare"
    /\ IF ok
       THEN /\ cli' = [cli EXCEPT !.pos = "install"]
            /\ kbDirs' = kbDirs \cup {Abs(cli.sel.PlatformDir)}
       ELSE /\ cli' = [cli EXCEPT !.pos = "exit", !.err = <<"create platform dir">>]
            /\ UNCHANGED kbDirs
    /\ UNCHANGED <<files, clock, pc, op, trace, pre, result, diff, installs, fn, run, prev>>

\* runCreate calls Install with the selection and the detected package manager
CreateInstall(name) ==
    /\ cli.cmd = "create" /\ cli.pos = "install"
    /\ op = NoOp
    /\ InstallCall(cli.sel, cli.m, name)

\* the command ends with what Install or Update returned
CliExit ==
    /\ cli.cmd \in {"create", "update"} /\ cli.pos \in {"install", "update"}
    /\ pc = "done"
    /\ cli' = [cli EXCEPT !.pos = "exit", !.err = result.err]
    /\ UNCHANGED <<files, kbDirs, clock, pc, op, trace, pre, result, diff, installs, fn, run, prev>>

-----------------------------------------------------------------------------
(* The update command (cmd/update.go) *)

\* what the user can answer to "Apply updates? [Y/n]"; the empty answer is
\* also what an end of input gives
Answers == {"", " ", "y", "Y", " y ", "yes", "YES", "n", "N", "no", "yess"}

\* strings.ToLower
ToLower(line) ==
    CASE line = "Y" -> "y" [] line = "YES" -> "yes" [] line = "N" -> "n" [] OTHER -> line

\* confirm that takes everything but n for a yes
confirm_NotNo(answer) ==
    TrimSpace(ToLower(answer)) # "n"

confirm(answer) ==
    LET line == TrimSpace(ToLower(answer)) IN
    line = "" \/ line = "y" \/ line = "yes"

\* kb-create update [--platform dir]: resolvePlatformDir takes the flag or,
\* without one, the platform of the snapshot in the working directory; then
\* the manifest is loaded and the logger opened
UpdateCmd(flag, m) ==
    /\ cli = NoCli
    /\ \E r \in Read(files, Getwd), logOk \in BOOLEAN :
         /\ cli' = IF flag = "" /\ r.err # NoError
                   THEN [cmd |-> "update", pos |-> "exit", m |-> m, platformDir |-> "",
                         answer |-> "", asked |-> FALSE, diff |-> NoDiff,
                         err |-> <<"platform directory not specified">>, files0 |-> files]
                   ELSE [cmd |-> "update",
                         pos |-> IF logOk THEN "diff" ELSE "exit",
                         m |-> m,
                         platformDir |-> IF flag # "" THEN flag ELSE r.cfg.Platform,
                         answer |-> "", asked |-> FALSE, diff |-> NoDiff,
                         err |-> IF logOk THEN NoError ELSE <<"logger">>,
                         files0 |-> files]
         /\ kbDirs' = IF logOk /\ (flag # "" \/ r.err = NoError)
                      THEN kbDirs \cup {Abs(IF flag # "" THEN flag ELSE r.cfg.Platform)}
                      ELSE kbDirs
    /\ UNCHANGED <<files, clock, pc, op, trace, pre, result, diff, installs, fn, run, prev>>

\* runUpdate calls Diff
UpdateCmdDiff ==
    /\ cli.cmd = "update" /\ cli.pos = "diff"
    /\ op = NoOp
    /\ DiffCall(cli.platformDir, cli.m)

\* Diff has returned: its error ends the command, and so does a diff without
\* changes; otherwise the diff is printed.  The command keeps the diff.
UpdateCmdCheck ==
    /\ cli.cmd = "update" /\ cli.pos = "diff"
    /\ pc = "done" /\ op.kind = "Diff"
    /\ cli' = IF result.err # NoError
              THEN [cli EXCEPT !.pos = "exit", !.err = result.err]
              ELSE IF ~HasChanges(diff)
              THEN [cli EXCEPT !.pos = "exit", !.diff = diff]
              ELSE [cli EXCEPT !.pos = "prompt", !.diff = diff]
    /\ UNCHANGED <<files, kbDirs, clock, pc, op, trace, pre, result, diff, installs, fn, run, prev>>

\* the engine is free again while the command waits at the prompt
UpdateCmdPrompt ==
    /\ cli.cmd = "update" /\ cli.pos = "prompt"
    /\ Return

\* the user's answer: confirm decides between Update and "Cancelled."
UpdateCmdConfirm(answer) ==
    /\ cli.cmd = "update" /\ cli.pos = "prompt"
    /\ pc = "idle"
    /\ cli' = [cli EXCEPT !.answer = answer, !.asked = TRUE,
                          !.pos = IF confirm(answer) THEN "update" ELSE "exit"]
    /\ UNCHANGED <<files, kbDirs, clock, pc, op, trace, pre, result, diff, installs, fn, run, prev>>

\* runUpdate calls Update
UpdateCmdApply(name) ==
    /\ cli.cmd = "update" /\ cli.pos = "update"
    /\ op = NoOp
    /\ UpdateCall(cli.platformDir, cli.m, name)

CliNext ==
    \/ \E m \in Manifests, yes \in BOOLEAN, dir \in {"", "/opt/kb"}, platform \in {"", "~/kb"} :
         CreateCmd(m, [Yes |-> yes, DefaultProjectCWD |-> dir, DefaultPlatformDir |-> platform])
    \/ \E k \in Keys, t \in DirTexts : WizardKey(k, t)
    \/ WizardReturn
    \/ \E ok \in BOOLEAN : CreatePrepare(ok)
    \/ \E name \in PMNames : CreateInstall(name)
    \/ \E ok \in BOOLEAN : InstallPMReturn(ok)
    \/ InstallWrite
    \/ \E ok \in BOOLEAN : InstallMkdir(ok)
    \/ \E flag \in {"", "/opt/kb", "kb"}, m \in Manifests : UpdateCmd(flag, m)
    \/ UpdateCmdDiff
    \/ UpdateCmdCheck
    \/ UpdateCmdPrompt
    \/ \E a \in Answers : UpdateCmdConfirm(a)
    \/ \E name \in PMNames : UpdateCmdApply(name)
    \/ \E ok \in BOOLEAN : UpdateInstallReturn(ok)
    \/ \E ok \in BOOLEAN : UpdatePMReturn(ok)
    \/ UpdateRefresh
    \/ CliExit

SpecCli == CliInit /\ [][CliNext]_vars


-----------------------------------------------------------------------------
(* Properties *)

\* the directory a path argument denotes
LocOf(path) == CASE path = "kb" -> "/w/kb" [] OTHER -> path

\* the package references of a manifest: its core names and the pkg of each
\* of its services and plugins
RefsOf(m) ==
    {m.Core[i].Name : i \in DOMAIN m.Core}
      \cup {m.Services[i].Pkg : i \in DOMAIN m.Services}
      \cup {m.Plugins[i].Pkg : i \in DOMAIN m.Plugins}

\* the package references of the manifest stored in a snapshot document
RefsOfDoc(doc) ==
    {doc.manifest.core[i].name : i \in DOMAIN doc.manifest.core}
      \cup {doc.manifest.services[i].pkg : i \in DOMAIN doc.manifest.services}
      \cup {doc.manifest.plugins[i].pkg : i \in DOMAIN doc.manifest.plugins}

NoRepeat(s) == \A i, j \in DOMAIN s : s[i] = s[j] => i = j

\* pkg of the components whose id is chosen, in the order of the components
RECURSIVE Chosen(_, _)
Chosen(components, idSet) ==
    IF components = <<>> THEN <<>>
    ELSE (IF Head(components).ID \in idSet THEN <<Head(components).Pkg>> ELSE <<>>)
           \o Chosen(Tail(components), idSet)

\* the events named ev of the running call
Events(ev) == SelectSeq(trace, LAMBDA e : e.ev = ev)

\* the name of the core package at position i
CoreNames(m) == [i \in DOMAIN m.Core |-> m.Core[i].Name]

\* C1: whenever Diff (alone or as the first step of Update) has computed a
\* diff for the stored snapshot manifest S and the candidate C, added = C \ S,
\* removed = S \ C and updated = S \cap C as sets, the three lists are
\* pairwise disjoint and none holds a reference twice.
C1_DiffSets ==
    (op.kind \in {"Diff", "Update"} /\ diff # NoDiff) =>
        LET S == RefsOfDoc(pre[LocOf(op.platformDir)].doc)
            C == RefsOf(op.m)
        IN  /\ Range(diff.Added) = C \ S
            /\ Range(diff.Removed) = S \ C
            /\ Range(diff.Updated) = S \cap C
            /\ NoRepeat(diff.Added) /\ NoRepeat(diff.Removed) /\ NoRepeat(diff.Updated)
            /\ Range(diff.Added) \cap Range(diff.Removed) = {}
            /\ Range(diff.Added) \cap Range(diff.Updated) = {}
            /\ Range(diff.Removed) \cap Range(diff.Updated) = {}

\* the scenario of the specification: snapshot {A, B}, candidate {A, C}
C1_Witness ==
    /\ pc = "done" /\ op.kind = "Diff"
    /\ diff # NoDiff
    /\ diff.Added = <<"C">> /\ diff.Removed = <<"B">> /\ diff.Updated = <<"A">>

\* C2: for every UpdateDiff value, HasChanges is true exactly when one of
\* added, removed, updated is not empty.
C2_HasChanges ==
    (fn.name = "HasChanges" /\ fn.done) =>
        (fn.out <=> (fn.d.Added # <<>> \/ fn.d.Removed # <<>> \/ fn.d.Updated # <<>>))

C2_Witness ==
    /\ fn.name = "HasChanges" /\ fn.done
    /\ fn.d.Added = <<>> /\ fn.d.Updated = <<>> /\ fn.d.Removed # <<>>
    /\ fn.out

\* C3: a Diff or Update for a platform directory without a snapshot ends with
\* the not-found error; it has made no capability call and the file system is
\* as it was (no snapshot was created).
C3_NotInstalled ==
    (op.kind \in {"Diff", "Update"} /\ pre[LocOf(op.platformDir)] = Absent) =>
        /\ pc = "done"
        /\ result = [err |-> <<"no config found">>]
        /\ \A i \in DOMAIN trace : trace[i].ev \notin {"pm.install", "pm.update"}
        /\ files = pre
        /\ files[LocOf(op.platformDir)] = Absent

C3_Witness ==
    /\ pc = "done" /\ op.kind = "Update"
    /\ op.m = M1
    /\ pre[LocOf(op.platformDir)] = Absent
    /\ result = [err |-> <<"no config found">>]

\* C4: the package list Install hands to the capability is the core names,
\* then the pkg of the services whose id is selected, then the pkg of the
\* plugins whose id is selected; with nothing selected it is the core names,
\* whatever the Default flags are.
C4_InstallPkgs ==
    op.kind = "Install" =>
        /\ Len(Events("pm.install")) >= 1
        /\ Events("pm.install")[1].pkgs =
             CoreNames(op.m) \o Chosen(op.m.Services, Range(op.sel.Services))
                             \o Chosen(op.m.Plugins, Range(op.sel.Plugins))
        /\ (op.sel.Services = <<>> /\ op.sel.Plugins = <<>>) =>
              Events("pm.install")[1].pkgs = CoreNames(op.m)

\* the scenario of the specification: a default service that is not selected
C4_Witness ==
    /\ pc = "done" /\ op.kind = "Install" /\ result = Ok
    /\ op.m = M1 /\ op.sel.Services = <<>> /\ op.sel.Plugins = <<>>
    /\ Events("pm.install")[1].pkgs = <<"A">>

\* C5: at every point of an Install call the capability's install has been
\* invoked exactly once, for the directory of the selection and with core,
\* selected services and selected plugins together; its update has not been
\* invoked; a failed install is followed by no further capability call.
C5_InstallOnce ==
    op.kind = "Install" =>
        /\ Len(Events("pm.install")) = 1
        /\ Len(Events("pm.update")) = 0
        /\ Events("pm.install")[1].dir = op.sel.PlatformDir
        /\ Range(Events("pm.install")[1].pkgs)
             = Range(CoreNames(op.m))
                 \cup Range(Chosen(op.m.Services, Range(op.sel.Services)))
                 \cup Range(Chosen(op.m.Plugins, Range(op.sel.Plugins)))
        /\ Len(Events("pm.install.err")) > 0 =>
              (pc = "done" /\ trace[Len(trace)].ev = "pm.install.err")

\* a failed install of core, services and plugins together
C5_Witness ==
    /\ pc = "done" /\ op.kind = "Install"
    /\ Len(Events("pm.install.err")) = 1
    /\ op.m = M2 /\ op.sel.Plugins # <<>>
    /\ Events("pm.install")[1].pkgs = <<"A", "C", "C", "A", "C">>

\* C6: selectedPkgs returns the pkg of exactly the components whose id occurs
\* in the id list, each once, in the order of the component list: an id that
\* matches no component adds nothing, a repeated id adds nothing more.
C6_SelectedPkgs ==
    (fn.name = "selectedPkgs" /\ fn.done) =>
        /\ fn.out = Chosen(fn.components, Range(fn.ids))
        /\ Len(fn.out) <= Len(fn.components)
        /\ (\A i \in DOMAIN fn.ids :
               \A k \in DOMAIN fn.components : fn.components[k].ID # fn.ids[i])
             => fn.out = <<>>

\* a repeated id, in another order than the components
C6_Witness ==
    /\ fn.name = "selectedPkgs" /\ fn.done
    /\ fn.ids = <<"s2", "s2">>
    /\ fn.components = <<Component("s1", "A", FALSE), Component("s2", "B", FALSE)>>
    /\ fn.out = <<"B">>


\* C7 as stated: after a successful Install the snapshot read back holds the
\* manifest, the capability's name and the directories of the selection as
\* they were given, and nothing of an earlier snapshot.
C7_AsStated ==
    (pc = "done" /\ op.kind = "Install" /\ result = Ok) =>
        \E r \in Read(files, op.sel.PlatformDir) :
            /\ r.err = NoError
            /\ r.cfg.Manifest = op.m
            /\ r.cfg.PM = op.pm
            /\ r.cfg.Platform = op.sel.PlatformDir
            /\ r.cfg.CWD = op.sel.ProjectCWD
            /\ r.cfg.InstalledAt = clock
            /\ r.cfg.Version = 1

\* C7: after a successful Install with manifest M at platform directory P, the
\* snapshot read back at P holds M, the capability's name, the absolute forms
\* of the selection's two directories, the timestamp of this Install and the
\* current schema version, whatever snapshot was at P before.
C7_InstallRoundTrip ==
    (pc = "done" /\ op.kind = "Install" /\ result = Ok) =>
        \E r \in Read(files, op.sel.PlatformDir) :
            /\ r.err = NoError
            /\ r.cfg.Manifest = op.m
            /\ r.cfg.PM = op.pm
            /\ r.cfg.Platform = LocOf(op.sel.PlatformDir)
            /\ r.cfg.CWD = LocOf(op.sel.ProjectCWD)
            /\ r.cfg.InstalledAt = clock
            /\ r.cfg.Version = 1

\* a successful Install over a snapshot of another manifest and backend, the
\* platform directory given as a relative path
C7_Witness ==
    /\ pc = "done" /\ op.kind = "Install" /\ result = Ok
    /\ op.sel.PlatformDir = "kb" /\ op.m = M2
    /\ pre["/w/kb"].kind = "json"
    /\ pre["/w/kb"].doc.pm # op.pm
    /\ pre["/w/kb"].doc.manifest.version = "1.0.0"
    /\ files["/w/kb"].kind = "json"
    /\ files["/w/kb"].doc.platform = "/w/kb"

\* C8: when the capability's install fails during Install, Install has
\* returned an error, neither the snapshot write nor the creation of the
\* runtime directory has been attempted, and the snapshot files are what they
\* were before the call.
C8_InstallFailure ==
    (op.kind = "Install" /\ Len(Events("pm.install.err")) > 0) =>
        /\ pc = "done"
        /\ result = [err |-> <<"install", "exit status 1">>]
        /\ Len(Events("config.write")) = 0
        /\ Len(Events("mkdir")) = 0
        /\ files = pre

\* a failed Install over an existing snapshot
C8_Witness ==
    /\ pc = "done" /\ op.kind = "Install"
    /\ Len(Events("pm.install.err")) > 0
    /\ pre[LocOf(op.sel.PlatformDir)].kind = "json"
    /\ files[LocOf(op.sel.PlatformDir)] = pre[LocOf(op.sel.PlatformDir)]
    /\ result # Ok

\* C9: whenever no call is in progress, a platform directory holds a snapshot
\* only if an Install for it has returned a Result.
C9_SnapshotOnlyAfterInstall ==
    pc \in {"idle", "done"} =>
        \A l \in Locations : files[l].kind = "json" => l \in installs

\* C10: after a successful Update of platform directory P with candidate C,
\* the snapshot at P is the snapshot from before the Update with its manifest
\* replaced by C and every other field as it was; no other snapshot changed.
C10_UpdateFrame ==
    (pc = "done" /\ op.kind = "Update" /\ result = Ok) =>
        LET l == LocOf(op.platformDir) IN
        /\ pre[l].kind = "json" /\ files[l].kind = "json"
        /\ files[l].doc.installedAt = pre[l].doc.installedAt
        /\ files[l].doc.platform = pre[l].doc.platform
        /\ files[l].doc.cwd = pre[l].doc.cwd
        /\ files[l].doc.pm = pre[l].doc.pm
        /\ files[l].doc.version = pre[l].doc.version
        /\ \E r \in Read(files, op.platformDir) : r.err = NoError /\ r.cfg.Manifest = op.m
        /\ \A k \in Locations \ {l} : files[k] = pre[k]

\* a successful Update to another manifest through another backend than the
\* one recorded at install time
C10_Witness ==
    /\ pc = "done" /\ op.kind = "Update" /\ result = Ok
    /\ pre[LocOf(op.platformDir)].kind = "json"
    /\ pre[LocOf(op.platformDir)].doc.pm = "npm" /\ op.pm = "pnpm"
    /\ pre[LocOf(op.platformDir)].doc.manifest.version = "1.0.0" /\ op.m = M2
    /\ files[LocOf(op.platformDir)].doc.manifest.version = "1.1.0"
    /\ files[LocOf(op.platformDir)].doc.pm = "npm"


\* the pkg of every component of a group, in order
PkgsOf(components) == [i \in DOMAIN components |-> components[i].Pkg]

\* C11: when the install of the added references or the update of the full
\* set fails during Update, Update has returned an error, no snapshot write
\* has been performed and the snapshot files are what they were before.
C11_UpdateFailure ==
    (op.kind = "Update"
       /\ Len(Events("pm.install.err")) + Len(Events("pm.update.err")) > 0) =>
        /\ pc = "done"
        /\ result \in {[err |-> <<"add new packages", "exit status 1">>],
                       [err |-> <<"update packages", "exit status 1">>]}
        /\ Len(Events("config.write")) = 0
        /\ files = pre

\* the update fails after the added packages were installed
C11_Witness ==
    /\ pc = "done" /\ op.kind = "Update"
    /\ Len(Events("pm.install.ok")) = 1 /\ Len(Events("pm.update.err")) = 1
    /\ files = pre
    /\ pre[LocOf(op.platformDir)].kind = "json"

\* C12: in an Update that has computed its diff, the capability's install has
\* been invoked once when the candidate has a reference the snapshot manifest
\* lacks and not at all otherwise; its argument is the list of added
\* references, which are exactly those references.
C12_UpdateInstallsAdded ==
    (op.kind = "Update" /\ diff # NoDiff) =>
        LET S == RefsOfDoc(pre[LocOf(op.platformDir)].doc)
            C == RefsOf(op.m)
            calls == Events("pm.install")
        IN  /\ Len(calls) = (IF C \ S # {} THEN 1 ELSE 0)
            /\ \A i \in DOMAIN calls :
                 /\ calls[i].pkgs = diff.Added
                 /\ calls[i].dir = op.platformDir
                 /\ Range(calls[i].pkgs) = C \ S
                 /\ Range(calls[i].pkgs) \cap S = {}
                 /\ NoRepeat(calls[i].pkgs)

\* install of the one added reference C while A is in both manifests
C12_Witness ==
    /\ op.kind = "Update" /\ pc = "update.install"
    /\ op.m = M2
    /\ RefsOfDoc(pre[LocOf(op.platformDir)].doc) = {"A", "B"}
    /\ Events("pm.install")[1].pkgs = <<"C">>

\* C13: once the diff step and, when there is one, the install step of an
\* Update have succeeded, the capability's update has been invoked exactly
\* once, with every core name and the pkg of every service and plugin of the
\* candidate manifest.
C13_UpdateAll ==
    (op.kind = "Update" /\ diff # NoDiff /\ pc # "update.install"
       /\ Len(Events("pm.install.err")) = 0) =>
        /\ Len(Events("pm.update")) = 1
        /\ Events("pm.update")[1].dir = op.platformDir
        /\ Events("pm.update")[1].pkgs =
             CoreNames(op.m) \o PkgsOf(op.m.Services) \o PkgsOf(op.m.Plugins)

\* the candidate is the snapshot manifest, installed with nothing selected
C13_Witness ==
    /\ op.kind = "Update" /\ pc = "done" /\ result = Ok
    /\ op.m = M2
    /\ pre[LocOf(op.platformDir)].doc.manifest.version = "1.1.0"
    /\ diff.Added = <<>>
    /\ Len(Events("pm.install")) = 0
    /\ Events("pm.update")[1].pkgs = <<"A", "C", "C", "A", "C">>


\* the prefixes Install and Update put in front of a stage's error
StageNames == {"install", "config", "project dir", "add new packages", "update packages"}

\* C17: a finished Install or Update that returns an error has run no stage
\* after the failed one, and the error it returns starts with the name of the
\* stage that failed.
C17_StageWrapped ==
    (pc = "done" /\ op.kind \in {"Install", "Update"} /\ result.err # NoError) =>
        /\ Len(result.err) >= 2
        /\ Head(result.err) \in StageNames
        /\ trace[Len(trace)].ev \in
             {"pm.install.err", "pm.update.err", "config.read", "config.write", "mkdir"}

\* C18: the snapshot file of every platform directory is absent or a complete
\* record at every point of every execution.
C18_AtomicSnapshot ==
    \A l \in Locations : files[l].kind \in {"absent", "json"}

\* C19: config.Read on a file that does not parse returns an error that is not
\* the not-found error and no record; Diff and Update on such a file return
\* that error, call no capability operation and leave the file as it is.
C19_CorruptIsNotMissing ==
    /\ \A p \in Paths :
         files[LocOf(p)] = Corrupt =>
           \A r \in Read(files, p) :
             r.err \in {<<"parse config">>, <<"read config">>} /\ r.cfg = NoConfig
    /\ (op.kind \in {"Diff", "Update"} /\ pre[LocOf(op.platformDir)] = Corrupt) =>
         /\ pc = "done"
         /\ result.err \in {<<"parse config">>, <<"read config">>}
         /\ diff = NoDiff
         /\ Len(Events("pm.install")) + Len(Events("pm.update")) = 0
         /\ Len(Events("config.write")) = 0
         /\ files = pre

\* an Update of a platform directory whose snapshot file does not parse
C19_Witness ==
    /\ op.kind = "Update" /\ pc = "done"
    /\ pre[LocOf(op.platformDir)] = Corrupt
    /\ files[LocOf(op.platformDir)] = Corrupt
    /\ result.err = <<"parse config">>


RECURSIVE SentOf(_, _, _)
SentOf(out, s, n) ==
    IF n = 0 THEN <<>>
    ELSE LET rest == SentOf(out, s, n - 1) IN
         IF TrimSpace(out[s][n]) = "" THEN rest
         ELSE Append(rest, Progress(s, n, out[s][n]))

\* C14: when runGroup returns, the log holds exactly the lines that were sent
\* on the progress channel, each once: as many as the process wrote lines
\* that are not blank, and none when the process could not be started;
\* whether op returned an error or not.
C14_DrainComplete ==
    (run.stage = "returned") =>
        /\ run.log = run.sent
        /\ run.ch = <<>>
        /\ NoRepeat(run.log)
        /\ Len(run.log) = IF run.started
                          THEN Len(SentOf(run.out, "stdout", Len(run.out["stdout"])))
                               + Len(SentOf(run.out, "stderr", Len(run.out["stderr"])))
                          ELSE 0
        /\ run.hasOnLine => run.online = run.log

\* a failed call that sent more lines than the channel holds
C14_Witness ==
    /\ run.stage = "returned"
    /\ run.err # NoError
    /\ Len(run.sent) > ChanCap
    /\ Len(run.log) = Len(run.sent)

\* C15: the capability operation returns, then the channel is closed, then
\* the drain goroutine signals done, then runGroup returns: the events of a
\* run are always a prefix of that sequence.
C15_RunOrder ==
    (run.stage # "none") =>
        /\ \E n \in 0..4 :
             run.events = SubSeq(<<"op.return", "close", "drain.done", "return">>, 1, n)
        /\ run.closed => run.stage \in {"closed", "returned"}
        /\ run.drained => run.closed
        /\ (run.stage = "returned") => run.drained
        /\ ~run.panic

\* a run that has gone through all four events with lines on the way
C15_Witness ==
    /\ run.stage = "returned"
    /\ run.events = <<"op.return", "close", "drain.done", "return">>
    /\ Len(run.log) > 0

\* C16: the lines of one stream are in the log, and in what OnLine received,
\* in the order the process wrote them; when runGroup returns each stream's
\* lines in the log are that stream's lines that are not blank.
C16_StreamOrder ==
    (run.stage # "none") =>
        /\ \A i, j \in DOMAIN run.log :
             (i < j /\ run.log[i].stream = run.log[j].stream) =>
                 run.log[i].idx < run.log[j].idx
        /\ \A i, j \in DOMAIN run.online :
             (i < j /\ run.online[i].stream = run.online[j].stream) =>
                 run.online[i].idx < run.online[j].idx
        /\ (run.stage = "returned" /\ run.started) =>
             \A s \in Streams :
                 SelectSeq(run.log, LAMBDA p : p.stream = s)
                   = SentOf(run.out, s, Len(run.out[s]))

\* the second line of stderr is logged between the two lines of stdout
C16_Witness ==
    /\ run.stage = "returned"
    /\ Len(run.log) = 4
    /\ run.log[1] = Progress("stdout", 1, "a")
    /\ run.log[2] = Progress("stderr", 1, "a")
    /\ run.log[3] = Progress("stderr", 2, "a")
    /\ run.log[4] = Progress("stdout", 2, "a")
    /\ run.online = run.log


\* C21: after a successful Install the directory <ProjectCWD>/.kb exists, and
\* the creation step fails only when the directory does not exist: a
\* directory that is already there is not an error.
C21_ProjectDir ==
    (op.kind = "Install" /\ pc = "done") =>
        /\ result = Ok => Abs(op.sel.ProjectCWD) \in kbDirs
        /\ (result.err # NoError /\ Head(result.err) = "project dir") =>
             Abs(op.sel.ProjectCWD) \notin kbDirs

\* an Install has succeeded for a directory that already held a snapshot, and
\* so its .kb directory, when the call started
C21_Witness ==
    /\ op.kind = "Install" /\ pc = "done" /\ result = Ok
    /\ op.sel.ProjectCWD = op.sel.PlatformDir
    /\ LocOf(op.sel.ProjectCWD) \in installs
    /\ pre[LocOf(op.sel.ProjectCWD)].kind = "json"
    /\ clock = 2

\* the stage announcements of the running call
Steps == SelectSeq(trace, LAMBDA e : e.ev \in {"step 1/2", "step 2/2"})

\* position of the first event named ev in the trace, 0 when there is none
FirstAt(ev) ==
    IF \E i \in DOMAIN trace : trace[i].ev = ev
    THEN CHOOSE i \in DOMAIN trace : trace[i].ev = ev /\ \A j \in 1..(i - 1) : trace[j].ev # ev
    ELSE 0

\* C22: Install announces stage 1 of 2 and then stage 2 of 2, each once and
\* each before the work of its stage; a successful Install has announced
\* both, and an Install whose stage 1 failed has announced only stage 1.
C22_Steps ==
    (op.kind = "Install") =>
        /\ \E n \in 0..2 :
             [i \in DOMAIN Steps |-> Steps[i].ev] = SubSeq(<<"step 1/2", "step 2/2">>, 1, n)
        /\ FirstAt("pm.install") > 0 =>
             FirstAt("step 1/2") \in 1..(FirstAt("pm.install") - 1)
        /\ FirstAt("config.write") > 0 =>
             FirstAt("step 2/2") \in 1..(FirstAt("config.write") - 1)
        /\ FirstAt("step 2/2") > 0 =>
             FirstAt("pm.install.ok") \in 1..(FirstAt("step 2/2") - 1)
        /\ (pc = "done" /\ result = Ok) => Len(Steps) = 2
        /\ FirstAt("pm.install.err") > 0 => Len(Steps) = 1

\* a successful Install with both announcements
C22_Witness ==
    /\ op.kind = "Install" /\ pc = "done" /\ result = Ok
    /\ [i \in DOMAIN trace |-> trace[i].ev] =
         <<"step 1/2", "pm.install", "pm.install.ok", "step 2/2", "config.write", "mkdir">>

\* the names of the events of the running call
EvNames == [i \in DOMAIN trace |-> trace[i].ev]

\* s is the beginning of t
IsPrefix(s, t) == Len(s) <= Len(t) /\ s = SubSeq(t, 1, Len(s))

\* the orders of Update's events, with and without added references
UpdateOrderAdded ==
    <<"config.read", "pm.install", "pm.install.ok", "pm.update", "pm.update.ok",
      "config.read", "config.write">>
UpdateOrderNoAdded ==
    <<"config.read", "pm.update", "pm.update.ok", "config.read", "config.write">>

\* the trace without a final capability error
OkPart ==
    IF Len(trace) > 0 /\ trace[Len(trace)].ev \in {"pm.install.err", "pm.update.err"}
    THEN SubSeq(EvNames, 1, Len(trace) - 1)
    ELSE EvNames

\* C29: within an Install or Update the snapshot files are as they were at
\* the start until the one snapshot write, every capability call has
\* returned without error before that write, none follows it, and Update's
\* events are in the order read, install of the added references if any,
\* update, reload, write.
C29_WriteAfterCalls ==
    (op.kind \in {"Install", "Update"}) =>
        /\ Len(Events("config.write")) <= 1
        /\ Len(Events("config.write")) = 0 => files = pre
        /\ \A i \in DOMAIN trace :
             trace[i].ev = "config.write" =>
               /\ \A j \in DOMAIN trace :
                    trace[j].ev \in {"pm.install", "pm.update"} =>
                      j < i /\ trace[j + 1].ev \in {"pm.install.ok", "pm.update.ok"}
               /\ Len(Events("pm.install")) + Len(Events("pm.update")) > 0
               /\ Len(Events("pm.install.err")) + Len(Events("pm.update.err")) = 0
        /\ (op.kind = "Update") =>
             \/ IsPrefix(OkPart, UpdateOrderAdded)
             \/ IsPrefix(OkPart, UpdateOrderNoAdded)

\* an Update with added references that went through all its events and
\* changed the snapshot
C29_Witness ==
    /\ op.kind = "Update" /\ pc = "done" /\ result = Ok
    /\ EvNames = UpdateOrderAdded
    /\ files # pre


\* C30: when the install of the added references has succeeded and the
\* update that follows fails, Update ends there: the snapshot still holds the
\* old manifest, which lacks every added reference, and no further
\* capability call is made.  An Update with the same candidate that follows
\* computes the same added set and hands it to install again.
C30_NotTransactional ==
    /\ (op.kind = "Update" /\ Len(Events("pm.install.ok")) > 0
          /\ Len(Events("pm.update.err")) > 0) =>
         /\ pc = "done" /\ result.err # NoError
         /\ trace[Len(trace)].ev = "pm.update.err"
         /\ Len(Events("pm.install")) = 1 /\ Len(Events("pm.update")) = 1
         /\ files = pre
         /\ Range(diff.Added) # {}
         /\ Range(diff.Added) \cap RefsOfDoc(files[LocOf(op.platformDir)].doc) = {}
    /\ (op.kind = "Update" /\ prev # NoPrev /\ diff # NoDiff) =>
         /\ Range(diff.Added) = prev.added
         /\ Len(Events("pm.install")) = 1
         /\ Range(Events("pm.install")[1].pkgs) = prev.added

\* the Update is repeated after the failure and install is running again with
\* the added reference of the first attempt
C30_Witness ==
    /\ op.kind = "Update" /\ pc = "update.install"
    /\ prev # NoPrev /\ prev.m = op.m /\ prev.platformDir = op.platformDir
    /\ prev.added = {"C"}
    /\ Events("pm.install")[1].pkgs = <<"C">>
    /\ "C" \notin RefsOfDoc(files[LocOf(op.platformDir)].doc)


\* the remote fetch of a finished Load succeeded
RemoteOk == fn.opts.RemoteURL # "" /\ fn.resp.kind = "ok" /\ fn.resp.data.kind = "json"

\* C23: Load returns the remote manifest when RemoteURL is set and the fetch
\* succeeds, whatever the other options are; when the fetch fails, for any
\* reason, Load returns no error of the fetch: it returns the manifest of the
\* override file when LocalOverride is set and the file holds one, and the
\* embedded manifest when LocalOverride is not set or the file does not exist.
C23_LoadChain ==
    (fn.name = "Load" /\ fn.done) =>
        /\ RemoteOk => fn.out = [m |-> RemoteManifest, err |-> NoError]
        /\ (fn.opts.RemoteURL # "" /\ ~RemoteOk) =>
             /\ fn.out.err \notin {<<"fetch">>, <<"fetch", "status">>, <<"read body">>}
             /\ (fn.opts.LocalOverride # "" /\ fn.file.kind = "json") =>
                  fn.out = [m |-> LocalManifest, err |-> NoError]
             /\ (fn.opts.LocalOverride = "" \/ fn.file.kind = "absent") =>
                  fn.out = [m |-> UnmarshalManifest(embeddedManifest.doc), err |-> NoError]
             /\ (fn.resp.kind = "ok" /\ fn.opts.LocalOverride # "" /\ fn.file.kind = "json") =>
                  fn.out.err # <<"parse manifest">>

\* the server answers with a status other than 200 and the override file is
\* used
C23_Witness ==
    /\ fn.name = "Load" /\ fn.done
    /\ fn.opts.RemoteURL # "" /\ fn.resp.kind = "status"
    /\ fn.opts.LocalOverride # "" /\ fn.file.kind = "json"
    /\ fn.out.m = LocalManifest

\* C24: when Load reaches the override step and the file exists, that file
\* decides: a file that does not parse gives a parse error and a file that
\* cannot be read a read error, never the embedded manifest; only a file that
\* does not exist leads to the embedded manifest.
C24_OverrideDecides ==
    (fn.name = "Load" /\ fn.done /\ ~RemoteOk /\ fn.opts.LocalOverride # "") =>
        /\ fn.file.kind = "corrupt" => fn.out = [m |-> NoManifest, err |-> <<"parse manifest">>]
        /\ fn.file.kind = "unreadable" => fn.out = [m |-> NoManifest, err |-> <<"read override">>]
        /\ fn.file.kind = "json" => fn.out = [m |-> LocalManifest, err |-> NoError]
        /\ fn.file.kind = "absent" <=>
             fn.out = [m |-> UnmarshalManifest(embeddedManifest.doc), err |-> NoError]

\* an override file that does not parse, with no remote URL
C24_Witness ==
    /\ fn.name = "Load" /\ fn.done
    /\ fn.opts.RemoteURL = "" /\ fn.opts.LocalOverride # ""
    /\ fn.file.kind = "corrupt"
    /\ fn.out.err = <<"parse manifest">>


\* the ids and the pkgs of the components of a list that are marked Default
DefaultsOf(components) ==
    SelectSeq(components, LAMBDA c : c.Default)

\* what the silent-mode claim says about the components
SilentComponents ==
    /\ fn.out.err = NoError
    /\ fn.out.sel.Services =
         [i \in DOMAIN DefaultsOf(fn.m.Services) |-> DefaultsOf(fn.m.Services)[i].ID]
    /\ fn.out.sel.Plugins =
         [i \in DOMAIN DefaultsOf(fn.m.Plugins) |-> DefaultsOf(fn.m.Plugins)[i].ID]
    /\ InstallPkgs(fn.out.sel, fn.m) =
         CoreNames(fn.m) \o PkgsOf(DefaultsOf(fn.m.Services))
                         \o PkgsOf(DefaultsOf(fn.m.Plugins))

\* C25 as stated: in silent mode Run returns the ids of the default services
\* and of the default plugins, in manifest order, so that Install gets core
\* and default components, and the directories are the overrides that are
\* not empty.
C25_AsStated ==
    (fn.name = "Run" /\ fn.done) =>
        /\ SilentComponents
        /\ fn.opts.DefaultPlatformDir # "" => fn.out.sel.PlatformDir = fn.opts.DefaultPlatformDir
        /\ fn.opts.DefaultProjectCWD # "" => fn.out.sel.ProjectCWD = fn.opts.DefaultProjectCWD

\* C25, amended: as above, and the directories are the overrides that are not
\* empty with a leading ~/ replaced by the home directory.
C25_SilentDefaults ==
    (fn.name = "Run" /\ fn.done) =>
        /\ SilentComponents
        /\ fn.opts.DefaultPlatformDir = "/opt/kb" => fn.out.sel.PlatformDir = "/opt/kb"
        /\ fn.opts.DefaultPlatformDir = "~/kb" => fn.out.sel.PlatformDir = "/w/kb"
        /\ fn.opts.DefaultProjectCWD = "/opt/kb" => fn.out.sel.ProjectCWD = "/opt/kb"
        /\ fn.opts.DefaultProjectCWD = "~/kb" => fn.out.sel.ProjectCWD = "/w/kb"

\* two default services, a plugin that is not default, a platform directory
\* under ~
C25_Witness ==
    /\ fn.name = "Run" /\ fn.done
    /\ fn.opts.DefaultPlatformDir = "~/kb" /\ fn.opts.DefaultProjectCWD = "/opt/kb"
    /\ fn.out.sel = Selection("/w/kb", "/opt/kb", <<"s1", "s2">>, <<>>)
    /\ Len(fn.m.Plugins) = 1


\* the wizard of the running create command is on the screen
InWizard == cli.cmd = "create" /\ cli.pos = "wizard"

\* C26: the wizard's stages are passed in the order dirs, options, confirm;
\* the dirs stage is left only with both inputs non-blank; the wizard is
\* confirmed only at the confirm stage by enter or y; esc and ctrl+c at any
\* stage and n at the confirm stage cancel it; it is never both cancelled
\* and confirmed.  Run returns a Selection only from a confirmed wizard, and
\* after a cancellation it returns an error and no Install is started.
C26_WizardStages ==
    /\ InWizard =>
         LET w == cli.w IN
         /\ \E n \in 1..3 : w.visited = SubSeq(<<stageDirs, stageOptions, stageConfirm>>, 1, n)
         /\ w.stage = w.visited[Len(w.visited)]
         /\ w.stage # stageDirs =>
              w.platformInput \notin {"", " "} /\ w.cwdInput \notin {"", " "}
         /\ w.confirmed => w.stage = stageConfirm /\ w.lastKey \in {"enter", "y", "Y"}
         /\ w.cancelled =>
              \/ w.lastKey \in {"ctrl+c", "esc"}
              \/ w.stage = stageConfirm /\ w.lastKey \in {"n", "N"}
         /\ ~(w.cancelled /\ w.confirmed)
         /\ w.quit => (w.cancelled \/ w.confirmed \/ w.panic)
         /\ ~w.quit =>
              \A k \in {"ctrl+c", "esc"} \cup (IF w.stage = stageConfirm THEN {"n", "N"} ELSE {}) :
                  handleKey(w, k, "").cancelled /\ handleKey(w, k, "").quit
         /\ op = NoOp /\ pc = "idle"
    /\ (cli.cmd = "create" /\ cli.how # "yes") =>
         /\ cli.sel # NoSelection => cli.how = "confirmed"
         /\ cli.how \in {"cancelled", "panic"} =>
              /\ cli.pos = "exit" /\ cli.err # NoError
              /\ op = NoOp /\ pc = "idle" /\ trace = <<>>
         /\ op.kind = "Install" => cli.how = "confirmed" /\ op.sel = cli.sel

\* the user has typed a relative platform directory, gone through the three
\* stages and confirmed, and the Install that followed has succeeded
C26_Witness ==
    /\ cli.cmd = "create" /\ cli.how = "confirmed"
    /\ cli.sel.PlatformDir = "kb"
    /\ op.kind = "Install" /\ pc = "done" /\ result = Ok

\* the ids of the items of a list that are checked
CheckedOf(items) ==
    LET on == SelectSeq(items, LAMBDA it : it.checked) IN
    [i \in DOMAIN on |-> on[i].id]

\* the components of the manifest in the order of the wizard's list
ItemsOf(m) == m.Services \o m.Plugins

\* C27: in every state of the wizard, toSelection has as services the ids of
\* the checked service items and as plugins the ids of the checked plugin
\* items, in list order, and an item is checked as it was at the start when
\* it was toggled an even number of times and the other way when an odd
\* number of times.
C27_ToSelection ==
    (InWizard /\ ~cli.w.panic) =>
        LET w == cli.w IN
        /\ toSelection(w).Services = CheckedOf(w.services)
        /\ toSelection(w).Plugins = CheckedOf(w.plugins)
        /\ \A i \in DOMAIN w.toggles :
             (w.services \o w.plugins)[i].checked =
                (IF w.toggles[i] % 2 = 0 THEN ItemsOf(cli.m)[i].Default
                 ELSE ~ItemsOf(cli.m)[i].Default)
        /\ [i \in DOMAIN w.toggles |-> (w.services \o w.plugins)[i].id] =
             [i \in DOMAIN ItemsOf(cli.m) |-> ItemsOf(cli.m)[i].ID]

\* the first service toggled once, the second twice, the plugin once
C27_Witness ==
    /\ InWizard /\ cli.m = M2
    /\ cli.w.toggles = <<1, 2, 1>>
    /\ toSelection(cli.w).Services = <<"s1", "s2">>
    /\ toSelection(cli.w).Plugins = <<>>

\* the answers that are nothing, y or yes in either case
AsStated == {"", "y", "Y", "yes", "YES"}

\* the same with white space around them
Accepted == AsStated \cup {" ", " y "}

\* the update command calls Update only after Diff has succeeded with changes
\* and an answer of yes; without one it makes no capability call and the
\* snapshot files stay as they were
UpdateOnlyAfter(yes) ==
    (cli.cmd = "update") =>
        /\ op.kind \in {"none", "Diff", "Update"}
        /\ op.kind = "Update" =>
             /\ cli.diff # NoDiff
             /\ Len(cli.diff.Updated) + Len(cli.diff.Added) + Len(cli.diff.Removed) > 0
             /\ cli.asked /\ cli.answer \in yes
        /\ ~(cli.asked /\ cli.answer \in yes) =>
             /\ op.kind # "Update"
             /\ Len(Events("pm.install")) + Len(Events("pm.update")) = 0
             /\ files = cli.files0
        /\ (cli.asked /\ cli.answer \notin yes) => cli.pos = "exit" /\ cli.err = NoError

\* C28 as stated: Update is called only on an answer that is nothing, y or
\* yes in either case, and on any other answer nothing is called.
C28_AsStated == UpdateOnlyAfter(AsStated)

\* C28: the update command calls Update only after Diff has succeeded with
\* changes and the user's answer, with the white space around it removed,
\* is nothing, y or yes in either case; otherwise it makes no capability
\* call and the snapshot files stay as they were.
C28_UpdateConfirmed == UpdateOnlyAfter(Accepted)

\* the user has answered YES and the update has been applied
C28_Witness ==
    /\ cli.cmd = "update" /\ cli.pos = "exit" /\ cli.err = NoError
    /\ cli.answer = "YES"
    /\ op.kind = "Update" /\ result = Ok
    /\ files # cli.files0


\* the platform directory argument of the running Install, Diff or Update
DirOf(o) == IF o.kind = "Install" THEN o.sel.PlatformDir ELSE o.platformDir

\* C31: when Install with manifest M or Update with candidate M has succeeded
\* at the platform directory P, Diff(P, M) finds the snapshot and, unless the
\* file cannot be read, returns a diff that has no added and no removed
\* reference and has as updated every package reference of M, once each, so
\* HasChanges is true exactly when M has a reference; and a Diff without
\* changes means the snapshot manifest and the candidate are both without
\* references.
C31_DiffAfterSuccess ==
    /\ (pc = "done" /\ op.kind \in {"Install", "Update"} /\ result = Ok) =>
         /\ \E d \in Diff(files, DirOf(op), op.m) : d.err = NoError
         /\ \A d \in Diff(files, DirOf(op), op.m) :
               IF d.err # NoError
               THEN d.err = <<"read config">>
               ELSE /\ d.diff.Added = <<>>
                    /\ d.diff.Removed = <<>>
                    /\ Range(d.diff.Updated) = RefsOf(op.m)
                    /\ NoRepeat(d.diff.Updated)
                    /\ HasChanges(d.diff) <=> (RefsOf(op.m) # {})
    /\ (pc = "done" /\ op.kind = "Diff" /\ result = Ok /\ ~HasChanges(diff)) =>
         /\ RefsOfDoc(files[LocOf(op.platformDir)].doc) = {}
         /\ RefsOf(op.m) = {}

\* an Update from the snapshot of M1 to the candidate M2 has succeeded, and
\* Diff now reports both references of M2 as updated
C31_Witness ==
    /\ pc = "done" /\ op.kind = "Update" /\ result = Ok
    /\ op.m = M2
    /\ pre[LocOf(op.platformDir)].kind = "json"
    /\ RefsOfDoc(pre[LocOf(op.platformDir)].doc) = {"A", "B"}
    /\ \E d \in Diff(files, op.platformDir, M2) :
          d.err = NoError /\ Range(d.diff.Updated) = {"A", "C"} /\ HasChanges(d.diff)


\* the references handed to the capability by the running call
PassedRefs ==
    UNION {Range(trace[i].pkgs) : i \in {j \in DOMAIN trace : trace[j].ev \in {"pm.install", "pm.update"}}}

\* C32: Update hands no reference of the diff's removed list to a capability
\* call; when it has succeeded the snapshot manifest holds none of them and
\* a Diff against the same candidate reports nothing as removed.
C32_RemovedUntouched ==
    (op.kind = "Update" /\ diff # NoDiff) =>
        /\ PassedRefs \cap Range(diff.Removed) = {}
        /\ (pc = "done" /\ result = Ok) =>
             /\ files[LocOf(op.platformDir)].kind = "json"
             /\ RefsOfDoc(files[LocOf(op.platformDir)].doc) \cap Range(diff.Removed) = {}
             /\ \A d \in Diff(files, op.platformDir, op.m) :
                   d.err = NoError => d.diff.Removed = <<>>

\* an Update whose diff had B as removed has succeeded after both capability
\* calls, and B was in the snapshot before
C32_Witness ==
    /\ op.kind = "Update" /\ pc = "done" /\ result = Ok
    /\ diff.Removed = <<"B">>
    /\ "B" \in RefsOfDoc(pre[LocOf(op.platformDir)].doc)
    /\ Len(Events("pm.install")) = 1 /\ Len(Events("pm.update")) = 1


\* the snapshot document Install writes for its directories, capability name
\* and manifest, with the time of writing left out: the chosen ids are no
\* argument of it
SnapshotFor(platformDir, cwd, name, m) ==
    Marshal(NewConfig(platformDir, cwd, name, m, 0))

\* C33: the snapshot of a successful Install is determined by the manifest,
\* the directories and the capability name alone, whatever ids were chosen,
\* up to installedAt; so no reference of the manifest, chosen or not, is in
\* the added list of a Diff that finds this snapshot, and Update hands to
\* install no reference that the snapshot it found holds.
C33_SnapshotIgnoresChoice ==
    /\ (op.kind = "Install" /\ pc = "done" /\ result = Ok) =>
         LET f == files[LocOf(op.sel.PlatformDir)] IN
         /\ f.kind = "json"
         /\ [f.doc EXCEPT !.installedAt = 0] =
               SnapshotFor(op.sel.PlatformDir, op.sel.ProjectCWD, op.pm, op.m)
         /\ \A c \in Manifests : \A d \in Diff(files, op.sel.PlatformDir, c) :
               d.err = NoError => Range(d.diff.Added) \cap RefsOf(op.m) = {}
    /\ (op.kind = "Update" /\ diff # NoDiff) =>
         \A i \in DOMAIN trace :
            trace[i].ev = "pm.install" =>
               Range(trace[i].pkgs) \cap RefsOfDoc(pre[LocOf(op.platformDir)].doc) = {}

\* M1 has been installed with nothing chosen: its service's reference B was
\* not handed to install and is in the snapshot all the same
C33_Witness ==
    /\ op.kind = "Install" /\ pc = "done" /\ result = Ok
    /\ op.m = M1 /\ op.sel.Services = <<>>
    /\ Events("pm.install")[1].pkgs = <<"A">>
    /\ RefsOfDoc(files[LocOf(op.sel.PlatformDir)].doc) = {"A", "B"}


\* a pipe goroutine has a line to send and the channel is full
Blocked(s) ==
    /\ run.started /\ ~run.panic
    /\ run.pos[s] <= Len(run.out[s])
    /\ TrimSpace(run.out[s][run.pos[s]]) # ""
    /\ Len(run.ch) = ChanCap

\* C34: under fair scheduling runGroup returns whenever the process ends its
\* output, also with more lines than the channel holds: a pipe goroutine
\* blocked on the full channel gets to send, and the drain goroutine ends
\* once the channel is closed.
C34_RunGroupTerminates ==
    /\ <>(run.stage = "returned")
    /\ \A s \in Streams :
         \A n \in 1..MaxLines : (Blocked(s) /\ run.pos[s] = n) ~> (run.pos[s] > n)
    /\ run.closed ~> run.drained

\* both streams have lines left while the channel is full: more lines than
\* the channel holds
C34_Witness ==
    /\ Blocked("stdout") /\ Blocked("stderr")
    /\ run.out["stdout"] = <<"a", "a">> /\ run.out["stderr"] = <<"a", "a">>


\* the backend call of the run has returned
OpReturned == run.stage \in {"opret", "closed", "returned"}

\* C35: when the backend call has returned, with or without an error, both
\* pipe goroutines have read their stream to the end and signalled, so every
\* line that is not blank has been sent already and none is sent later; the
\* channel is closed only then, and no send on the closed channel happens.
C35_ReadersFinishFirst ==
    (run.stage # "none") =>
        /\ (OpReturned /\ run.started) =>
             /\ run.piped = Streams
             /\ \A s \in Streams : run.pos[s] > Len(run.out[s])
             /\ Len(run.sent) = Len(SentOf(run.out, "stdout", Len(run.out["stdout"])))
                                 + Len(SentOf(run.out, "stderr", Len(run.out["stderr"])))
        /\ (OpReturned /\ ~run.started) => (run.sent = <<>> /\ run.piped = {})
        /\ run.closed => OpReturned
        /\ ~run.panic

\* a process that wrote four lines and ended with a non-zero exit status:
\* all four were sent before the channel was closed
C35_Witness ==
    /\ run.stage = "closed" /\ run.started
    /\ run.err = ExecError
    /\ Len(run.sent) = 4


\* C36: in the wizard the cursor is never negative and, when there is an
\* item, it is on an item; no toggle is performed with the cursor outside
\* the services and plugins, whatever the manifest.
C36_CursorInRange ==
    InWizard =>
        LET w     == cli.w
            total == Len(w.services) + Len(w.plugins)
        IN  /\ 0 <= w.cursor
            /\ total > 0 => w.cursor < total
            /\ ~w.panic


\* the wizard shows the directories that the options opts give it: nothing
\* was typed, or what was typed is the same text
Unedited(w, m, opts) ==
    /\ w.platformInput = newModel(m, opts).platformInput
    /\ w.cwdInput = newModel(m, opts).cwdInput

\* C37: a wizard that was confirmed with no item toggled and with the
\* directories its options gave it yields the Selection that silent mode
\* returns for the same manifest and options.
C37_InteractiveAgreesWithSilent ==
    (InWizard /\ cli.w.confirmed /\ \A i \in DOMAIN cli.w.toggles : cli.w.toggles[i] = 0) =>
        \A opts \in WizardOptions :
            Unedited(cli.w, cli.m, opts) =>
                toSelection(cli.w) = defaultSelection(cli.m, [opts EXCEPT !.Yes = TRUE])

\* the walk with M2 and the platform directory ~/kb, confirmed: the default
\* service and plugin under the expanded directory
C37_Witness ==
    /\ InWizard /\ cli.w.confirmed
    /\ cli.m = M2 /\ cli.w.toggles = <<0, 0, 0>>
    /\ cli.w.platformInput = "~/kb"
    /\ toSelection(cli.w) = Selection("/w/kb", Getwd, <<"s2">>, <<"p1">>)


\* C38: a Diff that has returned, with a diff or with an error, has made no
\* capability call and has left the snapshot file of every platform directory
\* as it was; a Diff called again on this state returns, when it succeeds,
\* the same three sets.
C38_DiffPure ==
    (op.kind = "Diff" /\ pc = "done") =>
        /\ files = pre
        /\ \A i \in DOMAIN trace : trace[i].ev = "config.read"
        /\ (result.err # NoError) <=> (diff = NoDiff)
        /\ result = Ok =>
             \A d \in Diff(files, op.platformDir, op.m) :
                d.err = NoError =>
                   /\ Range(d.diff.Added) = Range(diff.Added)
                   /\ Range(d.diff.Removed) = Range(diff.Removed)
                   /\ Range(d.diff.Updated) = Range(diff.Updated)

\* a Diff with changes has returned while two platform directories hold a
\* snapshot
C38_Witness ==
    /\ op.kind = "Diff" /\ pc = "done" /\ result = Ok
    /\ diff.Added # <<>> /\ diff.Removed # <<>>
    /\ files["/opt/kb"].kind = "json" /\ files["/w/kb"].kind = "json"

=============================================================================
